---- MODULE Spec2Model ----
(***************************************************************************)
(* Lobby / relay broker of noname-server (src/src/index.js, the            *)
(* alarm-driven LobbyDurableObject).  One action per handler the runtime   *)
(* can invoke: fetch (a new connection), webSocketMessage (one action per  *)
(* kind of inbound message), webSocketClose / webSocketError, alarm.       *)
(*                                                                         *)
(* JavaScript values are coded as strings ("null", "undefined", "", keys,  *)
(* avatars, configs); object references (client.room, client.owner,        *)
(* room.owner, client._onconfig) are indices into the object stores obj    *)
(* and roomObj, 0 standing for null.  Objects stay in the stores after     *)
(* they are dropped from the registry or the room array, as they do on     *)
(* the JavaScript heap while something still refers to them.               *)
(*                                                                         *)
(* Runtime behaviour taken from the Workers WebSocket API: send() on a     *)
(* socket the broker has closed throws, close() on it is a no-op, and a    *)
(* closed socket stays in getWebSockets() until its close event is         *)
(* delivered.  The peer sends nothing more on a socket the broker closed.  *)
(***************************************************************************)
EXTENDS Integers, Sequences, FiniteSets, TLC

(* ------------------------------ bounds -------------------------------- *)
MaxConn == 2
MaxRooms == 2
MaxTime == 140000
MaxLiveTime == 80000
MaxSweepTime == 30000
MaxEvents == 3
MaxEventTime == 1000

(* -------------------------- program constants -------------------------- *)
KeyTimeout == 2000
BeatTimeout == 60000
AlarmDelay == 10000
NickLen == 12

EventCap == 20

NoClient == 0
NoRoom == 0
NoAlarm == -1

JNull == "null"
JUndef == "undefined"

(* JavaScript truthiness of a string-coded value. *)
Falsy(v) == v \in {JNull, JUndef, ""}

(* The ban list of auth keys.  The source ships it empty and nothing       *)
(* fills it at run time; it is the operator's deployment list.  One banned *)
(* key is configured here so that the ban branches are reachable: every    *)
(* run of the empty list is a run in which no client presents "KB".        *)
bannedKeys == {"KB"}
(* The keyword list is shipped empty as well; one keyword is configured.   *)
bannedKeyWords == {"BW"}

(* ------------------------------ inputs --------------------------------- *)
(* Client addresses.  They are interchangeable, so a connection comes from *)
(* an address the broker still knows or from the first one it does not.    *)
IPs == <<"ip1", "ip2">>
DefaultNick == <<"wu", "ming", "wan", "jia">>
NickArgs == {[str |-> TRUE, chars |-> <<"A", "l">>]}
AvatarArgs == {"av1"}
Nick == [str |-> TRUE, chars |-> <<"A", "l">>]
(* idTuple of the key command: not an object, or an array whose first     *)
(* element is the key (JUndef for the empty array).                       *)
IdArgs == {[obj |-> FALSE, k |-> JUndef], [obj |-> TRUE, k |-> "K1"], [obj |-> TRUE, k |-> "KB"]}
LiveIdArgs == {[obj |-> TRUE, k |-> ""], [obj |-> TRUE, k |-> "K1"]}
KeyArgs == {JNull, "K1", "K2"}
(* config objects: a joinable one, a started game without observation,    *)
(* a started game with observation enabled and ready, a started game with *)
(* observation enabled but not ready; JUndef = no config.                 *)
ConfigArgs == {"cfgOpen", "cfgStarted"}
RoomConfigArgs == {"cfgOpen", "cfgStarted", "cfgObserve", "cfgObserveWait"}
gameStarted(cfg) == cfg \in {"cfgStarted", "cfgObserve", "cfgObserveWait"}
observe(cfg) == cfg \in {"cfgObserve", "cfgObserveWait"}
observeReady(cfg) == cfg = "cfgObserve"

(* cfg of the server command: absent, or [slotIndex, nickname, avatar]. *)
NoCfg == [given |-> FALSE, idx |-> 0, nickname |-> Nick, avatar |-> "av1"]
SlotCfg(i) == [given |-> TRUE, idx |-> i, nickname |-> Nick, avatar |-> "av1"]

VARIABLES
    clients,    \* this.clients: the wsids in the registry (Map keys, insertion order = wsid order)
    obj,        \* the client objects, by wsid
    rooms,      \* this.rooms: sequence of room object ids
    roomObj,    \* the room objects
    events,     \* this.events
    bannedIps,  \* this.bannedIps
    sockets,    \* state.getWebSockets(): per wsid "open", "closing" (broker called close) or "closed"
    alarmAt,    \* state.storage.getAlarm()
    now,        \* Date.now()
    closedBy,   \* history: per wsid, the code path that closed its socket first
    accepted,   \* history: the wsids whose key command reached line 518
    probeAt     \* history: per wsid, the time of its unanswered heartbeat probe

vars == <<clients, obj, rooms, roomObj, events, bannedIps, sockets, alarmAt, now,
          closedBy, accepted, probeAt>>

(* The state a handler starts from: the variables, and "out", the frames   *)
(* the handler delivers, in order, as <<wsid, frame>> (empty at the start). *)
Begin ==
    [clients |-> clients, obj |-> obj, rooms |-> rooms, roomObj |-> roomObj,
     events |-> events, bannedIps |-> bannedIps, sockets |-> sockets,
     alarmAt |-> alarmAt, now |-> now, out |-> <<>>,
     closedBy |-> closedBy, accepted |-> accepted, probeAt |-> probeAt]

(* An object no longer reachable from the registry, the room array or a    *)
(* reachable object is garbage: the stores keep its slot (ids are never    *)
(* reused) with a tombstone in it.                                         *)
deadClient ==
    [nickname |-> <<>>, avatar |-> "", room |-> 0, owner |-> 0,
     status |-> JNull, onlineKey |-> JNull, servermode |-> FALSE, onconfig |-> 0,
     clientIp |-> "", connectTime |-> 0, lastActivity |-> 0, beatWaiting |-> FALSE,
     banned |-> FALSE]
deadRoom == [owner |-> 0, key |-> JUndef, config |-> JUndef, servermode |-> FALSE]

refsOf(S, c) ==
    {S.obj[c].owner, S.obj[c].onconfig}
        \cup (IF S.obj[c].room # 0 THEN {S.roomObj[S.obj[c].room].owner} ELSE {})

RECURSIVE reach(_, _)
reach(S, R) ==
    LET R2 == (R \cup UNION {refsOf(S, c) : c \in R}) \ {0}
    IN  IF R2 = R THEN R ELSE reach(S, R2)

reachableClients(S) ==
    reach(S, (S.clients \cup {S.roomObj[S.rooms[i]].owner : i \in 1..Len(S.rooms)}) \ {0})

reachableRooms(S) ==
    ({S.rooms[i] : i \in 1..Len(S.rooms)}
        \cup {S.obj[c].room : c \in reachableClients(S)}) \ {0}

collect(S) ==
    [S EXCEPT !.obj = [c \in 1..Len(S.obj) |->
                          IF c \in reachableClients(S) THEN S.obj[c] ELSE deadClient],
              !.roomObj = [r \in 1..Len(S.roomObj) |->
                          IF r \in reachableRooms(S) THEN S.roomObj[r] ELSE deadRoom]]

Store(S) ==
    /\ clients' = S.clients /\ obj' = S.obj /\ rooms' = S.rooms
    /\ roomObj' = S.roomObj /\ events' = S.events /\ bannedIps' = S.bannedIps
    /\ sockets' = S.sockets /\ alarmAt' = S.alarmAt /\ now' = S.now
    /\ closedBy' = S.closedBy
    /\ accepted' = S.accepted /\ probeAt' = S.probeAt

(* The state a handler leaves behind (S is evaluated once). *)
Commit(S) == \E T \in {S} : \E R \in {collect(T)} : Store(R)

(* ------------------------------ helpers -------------------------------- *)
MinOf(s) == CHOOSE x \in s : \A y \in s : x <= y

RECURSIVE InOrder(_)
InOrder(s) == IF s = {} THEN <<>> ELSE <<MinOf(s)>> \o InOrder(s \ {MinOf(s)})

RemoveAt(seq, i) == SubSeq(seq, 1, i - 1) \o SubSeq(seq, i + 1, Len(seq))

(* ws.close(): closes an open socket; a no-op on one already closed. *)
wsClose(S, c, why) ==
    IF S.sockets[c] = "open"
    THEN [S EXCEPT !.sockets[c] = "closing", !.closedBy[c] = why]
    ELSE S

(* Mutant: the session is left in the registry. *)
cleanupClientKeeps(S, c) == S

cleanupClient(S, c) == [S EXCEPT !.clients = @ \ {c}]

(* closeClient: the catch branch (cleanupClient) runs only if close() throws, *)
(* which it does on a socket whose transport has failed ("broken").          *)
closeClient(S, c, why) ==
    IF S.sockets[c] = "broken"
    THEN [cleanupClient(S, c) EXCEPT !.closedBy[c] = "dropped"]
    ELSE wsClose(S, c, why)

(* Mutant: the frame is delivered whatever the state of the socket. *)
sendlAnyway(S, c, frame) == [S EXCEPT !.out = Append(@, <<c, frame>>)]

(* sendl: ws.send throws on a socket the broker closed; the catch calls closeClient. *)
sendl(S, c, frame) ==
    IF S.sockets[c] = "open"
    THEN [S EXCEPT !.out = Append(@, <<c, frame>>)]
    ELSE closeClient(S, c, "sendl")

getNickname(a) ==
    IF a.str
    THEN SubSeq(a.chars, 1, IF Len(a.chars) < NickLen THEN Len(a.chars) ELSE NickLen)
    ELSE DefaultNick

(* getroomlist: the member count of a room (first two loops). *)
(* Mutant: servermode sessions are counted too. *)
roomNumAll(S, r) == Cardinality({c \in S.clients : S.obj[c].room = r})

roomNum(S, r) ==
    Cardinality({c \in S.clients : S.obj[c].room = r /\ ~S.obj[c].servermode})

(* roomlist[i] = "server": an index assignment, which leaves holes below i. *)
RECURSIVE PadTo(_, _)
PadTo(list, n) == IF Len(list) >= n THEN list ELSE PadTo(Append(list, [kind |-> "hole"]), n)

SetIndex(list, i, v) ==
    IF Len(list) >= i THEN [list EXCEPT ![i] = v] ELSE Append(PadTo(list, i - 1), v)

(* Mutant: the config test is dropped. *)
ListedByOwner(room) == room.owner # NoClient

(* A room is listed when it has an owner and a published config. *)
Listed(room) == room.owner # NoClient /\ ~Falsy(room.config)

roomEntry(S, r) ==
    [kind |-> "room", nickname |-> S.obj[S.roomObj[r].owner].nickname,
     avatar |-> S.obj[S.roomObj[r].owner].avatar, config |-> S.roomObj[r].config,
     num |-> roomNum(S, r), key |-> S.roomObj[r].key]

(* getroomlist, third loop from index i: returns the state (reloadroom     *)
(* hints are sent on the way) and the list.                                *)
RECURSIVE roomlistFrom(_, _, _)
roomlistFrom(S, i, list) ==
    IF i > Len(S.rooms) THEN [S |-> S, list |-> list]
    ELSE LET r == S.rooms[i]
             room == S.roomObj[r]
         IN  IF room.servermode
             THEN roomlistFrom(S, i + 1, SetIndex(list, i, [kind |-> "server"]))
             ELSE IF Listed(room)
             THEN roomlistFrom(
                      IF roomNum(S, r) = 0 THEN sendl(S, room.owner, <<"reloadroom">>) ELSE S,
                      i + 1, Append(list, roomEntry(S, r)))
             ELSE roomlistFrom(S, i + 1, list)

getroomlist(S) == roomlistFrom(S, 1, <<>>)

clientEntry(S, c) ==
    <<S.obj[c].nickname, S.obj[c].avatar, S.obj[c].room = NoRoom, S.obj[c].status,
      c, S.obj[c].onlineKey>>

getclientlist(S) == [i \in 1..Cardinality(S.clients) |-> clientEntry(S, InOrder(S.clients)[i])]

(* Mutant: the index moves on after a removal, so the event that slid into *)
(* the freed slot is not looked at.                                        *)
RECURSIVE checkeventsSkipping(_, _, _)
checkeventsSkipping(ev, i, time) ==
    IF i > Len(ev) THEN ev
    ELSE IF ev[i].utc <= time THEN checkeventsSkipping(RemoveAt(ev, i), i + 1, time)
    ELSE checkeventsSkipping(ev, i + 1, time)

(* checkevents: the splice(i--, 1) loop from index i. *)
RECURSIVE checkeventsFrom(_, _, _)
checkeventsFrom(ev, i, time) ==
    IF i > Len(ev) THEN ev
    ELSE IF ev[i].utc <= time THEN checkeventsFrom(RemoveAt(ev, i), i, time)
    ELSE checkeventsFrom(ev, i + 1, time)

checkevents(S) == [S EXCEPT !.events = checkeventsFrom(S.events, 1, S.now)]

(* Mutant: the fan-out goes to every registered client. *)
RECURSIVE sendEachAll(_, _, _)
sendEachAll(S, ids, frame) ==
    IF ids = <<>> THEN S ELSE sendEachAll(sendl(S, Head(ids), frame), Tail(ids), frame)

(* The lobby-only fan-out: sendl to every registered client without a room. *)
RECURSIVE sendEach(_, _, _)
sendEach(S, ids, frame) ==
    IF ids = <<>> THEN S
    ELSE sendEach(IF S.obj[Head(ids)].room = NoRoom THEN sendl(S, Head(ids), frame) ELSE S,
                  Tail(ids), frame)

updaterooms(S) ==
    LET R == getroomlist(S)
    IN  sendEach(R.S, InOrder(R.S.clients), <<"updaterooms", R.list, getclientlist(R.S)>>)

updateclients(S) == sendEach(S, InOrder(S.clients), <<"updateclients", getclientlist(S)>>)

updateevents(S) ==
    LET S1 == checkevents(S)
    IN  sendEach(S1, InOrder(S1.clients), <<"updateevents", S1.events>>)

(* ------------------------------ connect -------------------------------- *)
newClient(ip, t) ==
    [nickname |-> <<>>, avatar |-> "", room |-> NoRoom, owner |-> NoClient,
     status |-> JNull, onlineKey |-> JNull, servermode |-> FALSE, onconfig |-> NoClient,
     clientIp |-> ip, connectTime |-> t, lastActivity |-> t, beatWaiting |-> FALSE,
     banned |-> FALSE]

(* Mutant: onConnect arms nothing. *)
scheduleAlarmNever(S) == S

scheduleAlarm(S) ==
    IF S.alarmAt = NoAlarm THEN [S EXCEPT !.alarmAt = S.now + AlarmDelay] ELSE S

(* Mutant: the test looks in the wrong ban list. *)
ipBannedWrongList(S, ip) == ip \in bannedKeys

(* onConnect's test of the banned-IP list. *)
ipBanned(S, ip) == ip \in S.bannedIps

(* The roomlist snapshot sent at the end of onConnect. *)
sendRoomlist(S, c) ==
    LET R == getroomlist(S)
        S1 == checkevents(R.S)
    IN  sendl(S1, c, <<"roomlist", R.list, S1.events, getclientlist(S1), c>>)

onConnect(S, c, ip) ==
    LET S1 == [S EXCEPT !.obj = Append(@, newClient(ip, S.now)), !.clients = @ \cup {c}]
    IN  IF ipBanned(S1, ip)
        THEN wsClose(sendl(S1, c, <<"denied", "banned">>), c, "bannedip")
        ELSE sendRoomlist(scheduleAlarm(S1), c)

(* fetch: accept the socket, then onConnect with a fresh wsid. *)
fetch(S, ip) ==
    LET c == Len(S.obj) + 1
    IN  onConnect([S EXCEPT !.sockets = Append(@, "open"), !.closedBy = Append(@, "none"),
                            !.probeAt = Append(@, NoAlarm)], c, ip)

knownIps == bannedIps \cup {obj[c].clientIp : c \in 1..Len(obj)}
freshIps == {i \in 1..Len(IPs) : IPs[i] \notin knownIps}
connectIps == (knownIps \ {""}) \cup (IF freshIps = {} THEN {} ELSE {IPs[MinOf(freshIps)]})

(* A connection arrives, no later than deadline. *)
Connect(deadline) ==
    /\ Len(obj) < MaxConn /\ now <= deadline
    /\ \E ip \in connectIps : Commit(fetch(Begin, ip))

(* ------------------------------ commands ------------------------------ *)
(* messages.key: the shape test of line 509 and the ban test of line 513. *)
keyShapeBad(id) == ~id.obj
(* Mutant: the ban list is searched for id itself, not for id[0]; only a  *)
(* bare string could match.                                               *)
keyBannedWholeId(id) == ~id.obj /\ id.k \in bannedKeys

keyBanned(id) == id.k \in bannedKeys

setOnlineKey(S, c, k) == [S EXCEPT !.obj[c].onlineKey = k, !.accepted = @ \cup {c}]

(* Mutant: the key is stored without the ban test. *)
keyNoBanTest(S, c, id) ==
    IF keyShapeBad(id)
    THEN closeClient(sendl(S, c, <<"denied", "key">>), c, "keyshape")
    ELSE setOnlineKey(S, c, id.k)

key(S, c, id) ==
    IF keyShapeBad(id)
    THEN closeClient(sendl(S, c, <<"denied", "key">>), c, "keyshape")
    ELSE IF keyBanned(id)
    THEN closeClient([S EXCEPT !.bannedIps = @ \cup {S.obj[c].clientIp}], c, "bannedkey")
    ELSE setOnlineKey(S, c, id.k)

(* Mutant: create only asks that the caller holds some key. *)
createDeniedUnlessKeyed(client, k) == Falsy(client.onlineKey)

(* messages.create: the guard of line 433 (strict inequality). *)
createDenied(client, k) == client.onlineKey # k

newRoom(c, k) == [owner |-> c, key |-> k, config |-> JUndef, servermode |-> FALSE]

create(S, c, k, nickname, avatar, config, mode) ==
    IF createDenied(S.obj[c], k) THEN S
    ELSE LET r == Len(S.roomObj) + 1
             S1 == [S EXCEPT !.obj[c].nickname = getNickname(nickname),
                             !.obj[c].avatar = avatar,
                             !.roomObj = Append(@, newRoom(c, k)),
                             !.rooms = Append(@, r),
                             !.obj[c].room = r,
                             !.obj[c].status = JUndef]
         IN  sendl(S1, c, <<"createroom", k>>)

(* messages.enter: the room lookup (first room of the array with the key). *)
roomIndex(S, k) ==
    LET hits == {i \in 1..Len(S.rooms) : S.roomObj[S.rooms[i]].key = k}
    IN  IF hits = {} THEN 0 ELSE MinOf(hits)

findRoom(S, k) == IF roomIndex(S, k) = 0 THEN NoRoom ELSE S.rooms[roomIndex(S, k)]

(* line 463: the server claim. *)
isServerClaim(S, room, config, mode) ==
    room.servermode /\ S.obj[room.owner].onconfig = NoClient /\ ~Falsy(config) /\ ~Falsy(mode)

(* Mutant: the started-game test is inverted. *)
notJoinableInverted(cfg) ==
    Falsy(cfg) \/ (~gameStarted(cfg) /\ (~observe(cfg) \/ ~observeReady(cfg)))

(* Mutant: a started game is refused even when it can be observed. *)
notJoinableNoObserver(cfg) == Falsy(cfg) \/ gameStarted(cfg)

(* line 468: the room cannot be joined. *)
notJoinable(cfg) == Falsy(cfg) \/ (gameStarted(cfg) /\ (~observe(cfg) \/ ~observeReady(cfg)))

(* Mutant: the owner is not told about its new guest. *)
joinAsGuestSilently(S, c, o) == [S EXCEPT !.obj[c].owner = o]

(* lines 471-472 *)
joinAsGuest(S, c, o) == sendl([S EXCEPT !.obj[c].owner = o], o, <<"onconnection", c>>)

enter(S, c, k, nickname, avatar, config, mode) ==
    LET S1 == [S EXCEPT !.obj[c].nickname = getNickname(nickname), !.obj[c].avatar = avatar]
        r == findRoom(S1, k)
    IN  IF r = NoRoom THEN sendl(S1, c, <<"enterroomfailed">>)
        ELSE LET S2 == [S1 EXCEPT !.obj[c].room = r, !.obj[c].status = JUndef]
                 room == S2.roomObj[r]
                 o == room.owner
             IN  IF o = NoClient THEN S2
                 ELSE IF isServerClaim(S2, room, config, mode)
                 THEN updaterooms(
                          [sendl(S2, o, <<"createroom", room.key, config, mode>>)
                              EXCEPT !.obj[o].onconfig = c,
                                     !.obj[o].nickname = getNickname(nickname),
                                     !.obj[o].avatar = avatar])
                 ELSE IF notJoinable(room.config)
                 THEN updaterooms(sendl(S2, c, <<"enterroomfailed">>))
                 ELSE updaterooms(joinAsGuest(S2, c, o))

(* Mutant: any session with a room may publish its config. *)
hasRoom(S, c) == S.obj[c].room # NoRoom

(* messages.config *)
ownsRoom(S, c) == S.obj[c].room # NoRoom /\ S.roomObj[S.obj[c].room].owner = c

finishHandoff(S, c) ==
    LET t == S.obj[c].onconfig
    IN  IF t = NoClient THEN S
        ELSE [(IF t \in S.clients
               THEN sendl([S EXCEPT !.obj[t].owner = c], c, <<"onconnection", t>>)
               ELSE S)
              EXCEPT !.obj[c].onconfig = NoClient]

config(S, c, cfg) ==
    IF ownsRoom(S, c)
    THEN LET r == S.obj[c].room
             S1 == IF S.roomObj[r].servermode
                   THEN finishHandoff([S EXCEPT !.roomObj[r].servermode = FALSE], c)
                   ELSE S
         IN  updaterooms([S1 EXCEPT !.roomObj[r].config = cfg])
    ELSE updaterooms(S)

(* typeof v === "string" for a string-coded value. *)
IsString(v) == v \notin {JNull, JUndef}

(* messages.changeAvatar *)
changeAvatar(S, c, nickname, avatar) ==
    updateclients([S EXCEPT !.obj[c].nickname = getNickname(nickname), !.obj[c].avatar = avatar])

(* messages.status *)
status(S, c, str) ==
    updateclients([S EXCEPT !.obj[c].status = IF IsString(str) THEN str ELSE JUndef])

(* messages.server with cfg = [index, nickname, avatar]: rooms[cfg[0]] is 0-based. *)
serverClaimSlot(S, c, cfg) ==
    LET S1 == [S EXCEPT !.obj[c].servermode = TRUE]
        i == cfg.idx + 1
    IN  IF i \notin 1..Len(S1.rooms) \/ S1.roomObj[S1.rooms[i]].owner # NoClient
        THEN sendl(S1, c, <<"reloadroom", TRUE>>)
        ELSE sendl([S1 EXCEPT !.roomObj[S1.rooms[i]].owner = c,
                              !.obj[c].room = S1.rooms[i],
                              !.obj[c].nickname = getNickname(cfg.nickname),
                              !.obj[c].avatar = cfg.avatar],
                   c, <<"createroom", cfg.idx, "emptyConfig", "auto">>)

(* messages.server without cfg: take the first room that has no owner. *)
serverTakeFree(S, c) ==
    LET free == {i \in 1..Len(S.rooms) : S.roomObj[S.rooms[i]].owner = NoClient}
    IN  updaterooms(
            IF free = {} THEN S
            ELSE [S EXCEPT !.roomObj[S.rooms[MinOf(free)]].owner = c,
                           !.roomObj[S.rooms[MinOf(free)]].servermode = TRUE,
                           !.obj[c].room = S.rooms[MinOf(free)],
                           !.obj[c].servermode = TRUE])

server(S, c, cfg) == IF cfg.given THEN serverClaimSlot(S, c, cfg) ELSE serverTakeFree(S, c)

(* Mutant: any guest is a valid target, whoever its owner is. *)
isGuestOfAnyone(S, id, c) == id \in S.clients /\ S.obj[id].owner # NoClient

(* messages.send / messages.close: only on a guest of the caller. *)
isGuestOf(S, id, c) == id \in S.clients /\ S.obj[id].owner = c

send(S, c, id, message) ==
    IF ~isGuestOf(S, id, c) THEN S
    ELSE IF S.sockets[id] = "open" THEN [S EXCEPT !.out = Append(@, <<id, <<"raw", message>>>>)]
    ELSE closeClient(S, id, "send")

close(S, c, id) == IF isGuestOf(S, id, c) THEN closeClient(S, id, "kick") ELSE S

(* isBanned: a string that contains a banned keyword (text is a sequence   *)
(* of words here); anything that is not a string passes.                   *)
isBanned(content) ==
    content.str /\ \E i \in 1..Len(content.words) : content.words[i] \in bannedKeyWords

(* getid() for a new event: an id that no event of the list carries. *)
eventIds(ev) == {ev[i].id : i \in 1..Len(ev)}
newEventId(ev) == MinOf((1..(Len(ev) + 1)) \ eventIds(ev))

(* lines 560-565: the record that is stored. *)
newEvent(S, cand, id) ==
    [id |-> newEventId(S.events), utc |-> cand.utc, content |-> cand.content,
     nickname |-> getNickname(cand.nickname),
     avatar |-> IF getNickname(cand.nickname) = <<>> THEN <<"caocao">>
                ELSE getNickname(cand.nickname),
     creator |-> id, members |-> <<id>>]

indexOf(seq, v) ==
    IF \E i \in 1..Len(seq) : seq[i] = v
    THEN MinOf({i \in 1..Len(seq) : seq[i] = v}) ELSE 0

(* Mutant: join pushes the key without looking for it first. *)
joinMembersAlways(members, id) == Append(members, id)

(* lines 531-534 *)
joinMembers(members, id) == IF indexOf(members, id) = 0 THEN Append(members, id) ELSE members

(* lines 529-546: the loop over the events from index i for the event id   *)
(* eid; a leave that empties the members splices the event (i--).          *)
RECURSIVE joinLeaveFrom(_, _, _, _, _)
joinLeaveFrom(ev, i, eid, id, type) ==
    IF i > Len(ev) THEN ev
    ELSE IF ev[i].id # eid THEN joinLeaveFrom(ev, i + 1, eid, id, type)
    ELSE IF type = "join"
    THEN joinLeaveFrom([ev EXCEPT ![i].members = joinMembers(@, id)], i + 1, eid, id, type)
    ELSE IF type = "leave"
    THEN IF indexOf(ev[i].members, id) = 0 THEN joinLeaveFrom(ev, i + 1, eid, id, type)
         ELSE IF Len(ev[i].members) = 1
         THEN joinLeaveFrom(RemoveAt(ev, i), i, eid, id, type)
         ELSE joinLeaveFrom([ev EXCEPT ![i].members = RemoveAt(@, indexOf(@, id))],
                            i + 1, eid, id, type)
    ELSE joinLeaveFrom(ev, i + 1, eid, id, type)

(* Mutant: the key test only looks at the ban list. *)
eventsKeyBadBanOnly(S, c, id) == id \in bannedKeys

(* line 522 *)
eventsKeyBad(S, c, id) == id \in bannedKeys \/ ~IsString(id) \/ S.obj[c].onlineKey # id

(* Mutant: the capacity test lets the list grow one further. *)
eventsFullLate(ev) == Len(ev) > EventCap

(* line 551 *)
eventsFull(ev) == Len(ev) >= EventCap

(* Mutant: an event that ends now is still accepted. *)
eventsPastStrict(S, cand) == cand.utc < S.now

(* line 553 *)
eventsPast(S, cand) == cand.utc <= S.now

(* lines 550-566: a full event record. *)
submitEvent(S, c, cand, id) ==
    IF eventsFull(S.events) THEN sendl(S, c, <<"eventsdenied", "total">>)
    ELSE IF eventsPast(S, cand) THEN sendl(S, c, <<"eventsdenied", "time">>)
    ELSE IF isBanned(cand.content) THEN sendl(S, c, <<"eventsdenied", "ban">>)
    ELSE updateevents([S EXCEPT !.events = <<newEvent(S, cand, id)>> \o @])

(* messages.events.  cand.shape: "none" (falsy cfg), "id" (a string: the   *)
(* id of an event), "record" (an object with utc, day, hour and content),  *)
(* "partial" (any other object).                                           *)
eventsCmd(S, c, cand, id, type) ==
    IF eventsKeyBad(S, c, id)
    THEN closeClient([S EXCEPT !.bannedIps = @ \cup {S.obj[c].clientIp}], c, "eventskey")
    ELSE IF cand.shape = "none" \/ Falsy(id) THEN S
    ELSE IF cand.shape = "id"
    THEN IF (\E i \in 1..Len(S.events) : S.events[i].id = cand.ev) /\ type \in {"join", "leave"}
         THEN updateevents([S EXCEPT !.events = joinLeaveFrom(@, 1, cand.ev, id, type)])
         ELSE S
    ELSE IF cand.shape = "record" THEN submitEvent(S, c, cand, id)
    ELSE S

(* The dispatch of lines 235-239; a type that names no handler is ignored. *)
messages(S, c, m) ==
    CASE m.type = "key" -> key(S, c, m.id)
      [] m.type = "create" -> create(S, c, m.key, m.nickname, m.avatar, m.config, m.mode)
      [] m.type = "enter" -> enter(S, c, m.key, m.nickname, m.avatar, m.config, m.mode)
      [] m.type = "config" -> config(S, c, m.config)
      [] m.type = "changeAvatar" -> changeAvatar(S, c, m.nickname, m.avatar)
      [] m.type = "status" -> status(S, c, m.str)
      [] m.type = "server" -> server(S, c, m.cfg)
      [] m.type = "send" -> send(S, c, m.target, m.message)
      [] m.type = "close" -> close(S, c, m.target)
      [] m.type = "events" -> eventsCmd(S, c, m.cand, m.authKey, m.etype)
      [] OTHER -> S

(* --------------------------- webSocketMessage --------------------------- *)
(* Mutant: the pending-probe flag is not cleared. *)
touchActivityKeepsFlag(S, c) == [S EXCEPT !.obj[c].lastActivity = S.now]

(* lines 211-213: any inbound frame counts as activity. *)
touchActivity(S, c) ==
    [S EXCEPT !.obj[c].lastActivity = S.now, !.obj[c].beatWaiting = FALSE,
              !.probeAt[c] = NoAlarm]

(* Mutant: the relay test looks the owner up in the registry. *)
isRelayedToRegistered(S, c) == S.obj[c].owner # NoClient /\ S.obj[c].owner \in S.clients

(* lines 219-222: a guest's frame is forwarded to its owner, not parsed. *)
isRelayed(S, c) == S.obj[c].owner # NoClient

webSocketMessage(S, c, m) ==
    IF c \notin S.clients THEN S
    ELSE LET S1 == touchActivity(S, c)
         IN  IF m.kind = "heartbeat" THEN S1
             ELSE IF isRelayed(S1, c) THEN sendl(S1, S1.obj[c].owner, <<"onmessage", c, m>>)
             ELSE IF m.kind = "junk" THEN sendl(S1, c, <<"denied", "banned">>)
             ELSE IF m.kind = "other" THEN S1
             ELSE messages(S1, c, m)

(* The handler run on the current state for a frame m from c. *)
received(c, m) == webSocketMessage(Begin, c, m)

Open(c) == c \in 1..Len(obj) /\ sockets[c] = "open"

Receive(c, m) == Open(c) /\ Commit(received(c, m))

Heartbeat == [kind |-> "heartbeat"]
Junk == [kind |-> "junk"]
OtherTag == [kind |-> "other"]
KeyMsg(id) == [kind |-> "cmd", type |-> "key", id |-> id]
CreateMsg(k, n, a, cfg) ==
    [kind |-> "cmd", type |-> "create", key |-> k, nickname |-> n, avatar |-> a,
     config |-> cfg, mode |-> "manual"]
EnterMsg(k, n, a, cfg, mode) ==
    [kind |-> "cmd", type |-> "enter", key |-> k, nickname |-> n, avatar |-> a,
     config |-> cfg, mode |-> mode]
ConfigMsg(cfg) == [kind |-> "cmd", type |-> "config", config |-> cfg]
ChangeAvatarMsg(n, a) == [kind |-> "cmd", type |-> "changeAvatar", nickname |-> n, avatar |-> a]
StatusMsg(str) == [kind |-> "cmd", type |-> "status", str |-> str]
ServerMsg(cfg) == [kind |-> "cmd", type |-> "server", cfg |-> cfg]
SendMsg(id, message) == [kind |-> "cmd", type |-> "send", target |-> id, message |-> message]
CloseMsg(id) == [kind |-> "cmd", type |-> "close", target |-> id]
UnknownMsg == [kind |-> "cmd", type |-> "nosuch"]
EventsMsg(cand, id, type) ==
    [kind |-> "cmd", type |-> "events", cand |-> cand, authKey |-> id, etype |-> type]

(* The cfg argument of events. *)
Text(words) == [str |-> TRUE, words |-> words]
Candidate(shape, ev, utc, content) ==
    [shape |-> shape, ev |-> ev, utc |-> utc, content |-> content, nickname |-> Nick]
NoCand == Candidate("none", 0, 0, Text(<<>>))
EventRef(ev) == Candidate("id", ev, 0, Text(<<>>))
EventRecord(utc, content) == Candidate("record", 0, utc, content)
PartialRecord == Candidate("partial", 0, 0, Text(<<>>))

OnHeartbeat(c) == Receive(c, Heartbeat)
OnMalformed(c) == Receive(c, Junk)
OnKey(c, id) == Receive(c, KeyMsg(id))
OnCreate(c, k, n, a, cfg) ==
    /\ (~createDenied(obj[c], k) /\ ~isRelayed(Begin, c) /\ c \in clients) => Len(roomObj) < MaxRooms
    /\ Receive(c, CreateMsg(k, n, a, cfg))
OnEnter(c, k, n, a, cfg, mode) == Receive(c, EnterMsg(k, n, a, cfg, mode))
OnConfig(c, cfg) == Receive(c, ConfigMsg(cfg))
OnServer(c, cfg) == Receive(c, ServerMsg(cfg))
OnSend(c, id) == Receive(c, SendMsg(id, "payload"))
OnClose(c, id) == Receive(c, CloseMsg(id))
OnOtherTag(c) == Receive(c, OtherTag)
OnEvents(c, cand, id, type) == Receive(c, EventsMsg(cand, id, type))

(* ------------------------- close / error events ------------------------- *)
(* handleClose, the loop of lines 276-285 from room index i. *)
RECURSIVE selfcloseEach(_, _, _, _)
selfcloseEach(S, ids, r, c) ==
    IF ids = <<>> THEN S
    ELSE selfcloseEach(
             IF S.obj[Head(ids)].room = r /\ Head(ids) # c
             THEN sendl(S, Head(ids), <<"selfclose">>) ELSE S,
             Tail(ids), r, c)

RECURSIVE dropRoomsFrom(_, _, _)
dropRoomsFrom(S, i, c) ==
    IF i > Len(S.rooms) THEN S
    ELSE IF S.roomObj[S.rooms[i]].owner = c
    THEN dropRoomsFrom(
             [selfcloseEach(S, InOrder(S.clients), S.rooms[i], c)
                 EXCEPT !.rooms = RemoveAt(@, i)], i, c)
    ELSE dropRoomsFrom(S, i + 1, c)

handleClose(S, c) ==
    IF c \notin S.clients THEN S
    ELSE LET S1 == dropRoomsFrom(S, 1, c)
             S2 == IF S1.obj[c].owner # NoClient
                   THEN sendl(S1, S1.obj[c].owner, <<"onclose", c>>) ELSE S1
             S3 == cleanupClient(S2, c)
         IN  IF S3.obj[c].room # NoRoom THEN updaterooms(S3) ELSE updateclients(S3)

(* webSocketClose / webSocketError: the runtime reports the socket gone. *)
Closable(c) == c \in 1..Len(obj) /\ sockets[c] \in {"open", "closing", "broken"}

closeEvent(c) == handleClose([Begin EXCEPT !.sockets[c] = "closed", !.probeAt[c] = NoAlarm], c)

CloseEvent(c) == Closable(c) /\ Commit(closeEvent(c))

(* -------------------------------- alarm --------------------------------- *)
liveSockets(S) == {c \in 1..Len(S.sockets) : S.sockets[c] # "closed"}

(* Mutant: the key timeout waits for the heartbeat window. *)
keyTimedOutLate(client, t) ==
    Falsy(client.onlineKey) /\ ~client.banned /\ t - client.connectTime > BeatTimeout

(* Mutant: the heartbeat window is closed at its boundary. *)
idleTooLongAtBoundary(client, t) == t - client.lastActivity >= BeatTimeout

(* line 84: the key-validation timeout. *)
keyTimedOut(client, t) ==
    Falsy(client.onlineKey) /\ ~client.banned /\ t - client.connectTime > KeyTimeout

(* line 95: the heartbeat window has elapsed. *)
idleTooLong(client, t) == t - client.lastActivity > BeatTimeout

(* ws.send("heartbeat") inside try, ws.close() in the catch. *)
probe(S, c) ==
    IF S.sockets[c] = "open"
    THEN [S EXCEPT !.out = Append(@, <<c, <<"heartbeat">>>>), !.probeAt[c] = S.now]
    ELSE wsClose(S, c, "probe")

sweepOne(S, c) ==
    IF c \notin S.clients THEN wsClose(S, c, "noclient")
    ELSE IF keyTimedOut(S.obj[c], S.now)
    THEN wsClose([sendl(S, c, <<"denied", "key">>) EXCEPT !.obj[c].banned = TRUE], c, "nokey")
    ELSE IF idleTooLong(S.obj[c], S.now)
    THEN IF S.obj[c].beatWaiting
         THEN wsClose(S, c, "beat")
         ELSE probe([S EXCEPT !.obj[c].beatWaiting = TRUE], c)
    ELSE S

(* The loop of lines 71-110 over the sockets, in order; T is the state the  *)
(* iteration for the first of them leaves.                                 *)
RECURSIVE sweep(_, _)
sweep(S, ids) ==
    IF ids = <<>> THEN S
    ELSE CHOOSE R \in {sweep(T, Tail(ids)) : T \in {sweepOne(S, Head(ids))}} : TRUE

(* lines 112-115: re-arm while sockets remain. *)
rearm(S) == IF liveSockets(S) # {} THEN [S EXCEPT !.alarmAt = S.now + AlarmDelay] ELSE S

alarm(S) ==
    IF liveSockets(S) = {} THEN S
    ELSE CHOOSE R \in {rearm(T) : T \in {sweep(S, InOrder(liveSockets(S)))}} : TRUE

(* The runtime fires the alarm once its time is reached and clears it. *)
alarmDue == alarmAt # NoAlarm /\ now >= alarmAt

alarmRun == CHOOSE R \in {alarm(T) : T \in {[Begin EXCEPT !.alarmAt = NoAlarm]}} : TRUE

Alarm == alarmDue /\ Commit(alarmRun)

(* ------------------------------- time ---------------------------------- *)
(* The clock advances by d, up to limit. *)
Tick(d, limit) ==
    /\ now + d <= limit /\ now' = now + d
    /\ UNCHANGED <<clients, obj, rooms, roomObj, events, bannedIps, sockets, alarmAt,
                   closedBy, accepted, probeAt>>

Init ==
    /\ clients = {} /\ obj = <<>> /\ rooms = <<>> /\ roomObj = <<>> /\ events = <<>>
    /\ bannedIps = {} /\ sockets = <<>> /\ alarmAt = NoAlarm /\ now = 0
    /\ closedBy = <<>> /\ accepted = {} /\ probeAt = <<>>

Conns == 1..Len(obj)

(* Every handler, over a clock that steps by one probe period. *)
ProbePeriod == BeatTimeout + AlarmDelay

Next ==
    \/ Connect(ProbePeriod)
    \/ Tick(ProbePeriod, MaxTime)
    \/ Alarm
    \/ \E c \in Conns : CloseEvent(c)
    \/ \E c \in Conns : OnHeartbeat(c)
    \/ \E c \in Conns : OnMalformed(c)
    \/ \E c \in Conns, id \in IdArgs : OnKey(c, id)
    \/ \E c \in Conns : OnCreate(c, "K1", Nick, "av1", "cfgOpen")
    \/ \E c \in Conns : OnEnter(c, "K1", Nick, "av1", JUndef, JUndef)
    \/ \E c \in Conns : OnConfig(c, "cfgOpen")

Spec == Init /\ [][Next]_vars

(* The lobby commands over all their arguments, the clock standing still. *)
NextRooms ==
    \/ Connect(MaxTime)
    \/ \E c \in Conns : CloseEvent(c)
    \/ \E c \in Conns : OnMalformed(c)
    \/ \E c \in Conns, id \in IdArgs : OnKey(c, id)
    \/ \E c \in Conns, k \in KeyArgs, n \in NickArgs, a \in AvatarArgs :
           OnCreate(c, k, n, a, "cfgOpen")
    \/ \E c \in Conns, k \in KeyArgs, n \in NickArgs, a \in AvatarArgs :
           OnEnter(c, k, n, a, JUndef, JUndef)
    \/ \E c \in Conns, cfg \in ConfigArgs : OnConfig(c, cfg)

SpecRooms == Init /\ [][NextRooms]_vars

(* The relay: hosts that publish any config, guests, the owner's send and *)
(* close, the server command and frames with another tag; one key per     *)
(* session, no clock.                                                     *)
NextRelay ==
    \/ Connect(MaxTime)
    \/ \E c \in Conns : CloseEvent(c)
    \/ \E c \in Conns : OnMalformed(c)
    \/ \E c \in Conns : OnOtherTag(c)
    \/ \E c \in Conns : OnKey(c, [obj |-> TRUE, k |-> "K1"])
    \/ \E c \in Conns : OnCreate(c, "K1", Nick, "av1", "cfgOpen")
    \/ \E c \in Conns, k \in {"K1", "K2"} : OnEnter(c, k, Nick, "av1", JUndef, JUndef)
    \/ \E c \in Conns, cfg \in RoomConfigArgs : OnConfig(c, cfg)
    \/ \E c \in Conns, cfg \in {NoCfg, SlotCfg(0)} : OnServer(c, cfg)
    \/ \E c \in Conns, id \in Conns : OnSend(c, id)
    \/ \E c \in Conns, id \in Conns : OnClose(c, id)

SpecRelay == Init /\ [][NextRelay]_vars

(* The transport of an open socket fails: from now on send() and close()   *)
(* on it throw, no message arrives on it, and the runtime will report it   *)
(* through webSocketError or webSocketClose.                               *)
Break(c) ==
    /\ Open(c)
    /\ sockets' = [sockets EXCEPT ![c] = "broken"]
    /\ UNCHANGED <<clients, obj, rooms, roomObj, events, bannedIps, alarmAt, now,
                   closedBy, accepted, probeAt>>

(* Rooms, guests and failing transports. *)
NextFail ==
    \/ Connect(MaxTime)
    \/ \E c \in Conns : CloseEvent(c)
    \/ \E c \in Conns : Break(c)
    \/ \E c \in Conns : OnKey(c, [obj |-> TRUE, k |-> "K1"])
    \/ \E c \in Conns : OnCreate(c, "K1", Nick, "av1", "cfgOpen")
    \/ \E c \in Conns : OnEnter(c, "K1", Nick, "av1", JUndef, JUndef)
    \/ \E c \in Conns : OnConfig(c, "cfgOpen")

SpecFail == Init /\ [][NextFail]_vars

(* The runtime evicts the object from memory between two events            *)
(* (hibernation): the next event runs the constructor again, so the        *)
(* registry, the rooms, the events and the ban list start empty, while the *)
(* accepted sockets, their attachments and the stored alarm survive.       *)
Evict ==
    /\ (clients # {} \/ rooms # <<>> \/ events # <<>> \/ bannedIps # {})
    /\ Commit([Begin EXCEPT !.clients = {}, !.rooms = <<>>, !.events = <<>>,
                            !.bannedIps = {}])

EvictEnd == 2 * AlarmDelay

(* Connections, keys and rooms over an object that can be evicted, with    *)
(* the sweep running.                                                      *)
NextEvict ==
    \/ Connect(0)
    \/ Evict
    \/ Tick(AlarmDelay, EvictEnd)
    \/ Alarm
    \/ \E c \in Conns : CloseEvent(c)
    \/ \E c \in Conns : OnKey(c, [obj |-> TRUE, k |-> "K1"])
    \/ \E c \in Conns : OnCreate(c, "K1", Nick, "av1", "cfgOpen")

SpecEvict == Init /\ [][NextEvict]_vars

(* The event board: sessions that connect at time 0 and take one of two    *)
(* keys, events that end at one of two instants, a clock that reaches the  *)
(* first, join and leave by event id.  Every events command carries the    *)
(* sender's own key, the holder of the first key submits, and the list is  *)
(* kept to MaxEvents events.                                               *)
EventStep == 1000
UtcArgs == {EventStep, 2 * EventStep}
Plain == Text(<<"hi">>)

OnSubmit(c, utc) ==
    /\ Len(events) < MaxEvents
    /\ c \in Conns /\ obj[c].onlineKey = "K1"
    /\ OnEvents(c, EventRecord(utc, Plain), "K1", JUndef)

OnFirstKey(c, k) ==
    /\ c \in Conns /\ obj[c].onlineKey = JNull
    /\ OnKey(c, [obj |-> TRUE, k |-> k])

OnJoinLeave(c, e, t) ==
    /\ c \in Conns /\ obj[c].onlineKey \in {"K1", "K2"}
    /\ OnEvents(c, EventRef(e), obj[c].onlineKey, t)

NextEvents ==
    \/ Connect(0)
    \/ Tick(EventStep, MaxEventTime)
    \/ \E c \in Conns : CloseEvent(c)
    \/ \E c \in Conns, k \in {"K1", "K2"} : OnFirstKey(c, k)
    \/ \E c \in Conns, utc \in UtcArgs : OnSubmit(c, utc)
    \/ \E c \in Conns, e \in 1..MaxEvents, t \in {"join", "leave"} : OnJoinLeave(c, e, t)

SpecEvents == Init /\ [][NextEvents]_vars

(* The event board up to its capacity: one kind of event, submitted again  *)
(* and again, a join that carries a key the sender does not hold, and a    *)
(* clock that reaches the instant at which the events end.                 *)
NextEventCap ==
    \/ Connect(MaxTime)
    \/ \E c \in Conns : CloseEvent(c)
    \/ \E c \in Conns : OnKey(c, [obj |-> TRUE, k |-> "K1"])
    \/ \E c \in Conns : OnEvents(c, EventRecord(EventStep, Plain), "K1", JUndef)
    \/ \E c \in Conns : OnEvents(c, EventRef(1), "K2", "join")
    \/ Tick(EventStep, MaxEventTime)

SpecEventCap == Init /\ [][NextEventCap]_vars

(* The liveness monitor over a clock that steps by the sweep period; the   *)
(* sweep may run late.  Connections arrive during the first sweep period.  *)
NextLive ==
    \/ Connect(AlarmDelay)
    \/ Tick(AlarmDelay, MaxLiveTime)
    \/ Alarm
    \/ \E c \in Conns : CloseEvent(c)
    \/ \E c \in Conns : OnHeartbeat(c)
    \/ \E c \in Conns, id \in LiveIdArgs : OnKey(c, id)

SpecLive == Init /\ [][NextLive]_vars

(* The sweep under the scheduling the runtime gives it: time passes, and a *)
(* pending alarm whose time has come is delivered.  A connection arrives   *)
(* early enough for the clock of the model to reach its first sweep.       *)
TickSweep == Tick(AlarmDelay, MaxSweepTime)

NextSweep ==
    \/ Connect(MaxSweepTime - AlarmDelay)
    \/ TickSweep
    \/ Alarm
    \/ \E c \in Conns : CloseEvent(c)
    \/ \E c \in Conns : OnHeartbeat(c)
    \/ \E c \in Conns, id \in LiveIdArgs : OnKey(c, id)

SpecSweep == Init /\ [][NextSweep]_vars /\ WF_vars(TickSweep) /\ WF_vars(Alarm)
(* ------------------------------- claims --------------------------------- *)
(* The frames a client can send, over the commands and argument values     *)
(* modelled.                                                               *)
ServerArgs == {NoCfg} \cup {SlotCfg(i) : i \in 0..1}
AllIdArgs == IdArgs \cup LiveIdArgs \cup {[obj |-> TRUE, k |-> JUndef], [obj |-> TRUE, k |-> "K2"]}
AllKeyArgs == KeyArgs \cup {JUndef, ""}
EventFrames ==
    {EventsMsg(cand, k, "join") :
        cand \in {EventRef(1), EventRecord(1000, Text(<<"hi">>))}, k \in {JNull, "K1"}}

Inbound ==
    {Heartbeat, Junk}
        \cup {KeyMsg(id) : id \in AllIdArgs}
        \cup {CreateMsg(k, n, "av1", "cfgOpen") : k \in AllKeyArgs, n \in NickArgs}
        \cup {EnterMsg(k, n, "av1", JUndef, JUndef) : k \in AllKeyArgs, n \in NickArgs}
        \cup {ConfigMsg(cfg) : cfg \in RoomConfigArgs \cup {JUndef}}
        \cup {ChangeAvatarMsg(n, "av1") : n \in NickArgs}
        \cup {StatusMsg(str) : str \in {"busy", JUndef}}
        \cup {ServerMsg(cfg) : cfg \in ServerArgs}
        \cup {SendMsg(id, "heartbeat") : id \in 1..MaxConn}
        \cup {CloseMsg(id) : id \in 1..MaxConn}
        \cup {UnknownMsg, OtherTag}
        \cup EventFrames

(* Handler result R delivered a frame with this tag to c. *)
Sent(R, c, tag) == \E i \in 1..Len(R.out) : R.out[i][1] = c /\ R.out[i][2][1] = tag
SentFrame(R, c, frame) ==
    \E i \in 1..Len(R.out) :
        R.out[i][1] = c /\ R.out[i][2][1] = frame[1] /\ R.out[i][2] = frame
NoneSent(R, tag) == \A i \in 1..Len(R.out) : R.out[i][2][1] # tag
CountSent(R, c, tag) ==
    Cardinality({i \in 1..Len(R.out) : R.out[i][1] = c /\ R.out[i][2][1] = tag})

(* C1: a connection from a banned IP is closed by onConnect without a      *)
(* roomlist frame; its socket is never open afterwards; and no handler     *)
(* sends a roomlist frame on any connection but the one fetch has just     *)
(* accepted, so none is ever sent on it later.                             *)
C1_BannedIpRefused ==
    /\ \A i \in 1..Len(IPs) :
          IPs[i] \in bannedIps =>
              LET R == fetch(Begin, IPs[i])
              IN  R.sockets[Len(obj) + 1] = "closing" /\ ~Sent(R, Len(obj) + 1, "roomlist")
    /\ \A c \in Conns : closedBy[c] = "bannedip" => sockets[c] # "open"
    /\ \A i \in 1..Len(IPs) : \A c \in Conns : ~Sent(fetch(Begin, IPs[i]), c, "roomlist")
    /\ \A d \in Conns : Open(d) => \A m \in Inbound : NoneSent(received(d, m), "roomlist")
    /\ \A d \in Conns : Closable(d) => NoneSent(closeEvent(d), "roomlist")
    /\ NoneSent(alarmRun, "roomlist")

C1_Witness == \E c \in Conns : closedBy[c] = "bannedip" /\ sockets[c] = "closing"

(* C2: a new session has onlineKey null; a session's onlineKey is changed  *)
(* only by its own key command with an object id whose key is not banned,  *)
(* and by no other command, no connect, no disconnect and no sweep.        *)
C2_AuthOnlyByKey ==
    /\ \A c \in Conns : obj[c].onlineKey # JNull => c \in accepted
    /\ \A i \in 1..Len(IPs) :
          LET R == fetch(Begin, IPs[i])
          IN  /\ R.obj[Len(obj) + 1].onlineKey = JNull
              /\ Len(obj) + 1 \notin R.accepted
              /\ \A d \in Conns : R.obj[d].onlineKey = obj[d].onlineKey
    /\ \A c \in Conns :
          Open(c) =>
              \A m \in Inbound :
                  LET R == received(c, m)
                  IN  \A d \in Conns :
                          R.obj[d].onlineKey # obj[d].onlineKey =>
                              /\ d = c /\ m.kind = "cmd" /\ m.type = "key"
                              /\ m.id.obj /\ m.id.k \notin bannedKeys
                              /\ R.obj[d].onlineKey = m.id.k /\ d \in R.accepted
    /\ \A c \in Conns :
          Closable(c) => \A d \in Conns : closeEvent(c).obj[d].onlineKey = obj[d].onlineKey
    /\ \A d \in Conns : alarmRun.obj[d].onlineKey = obj[d].onlineKey

C2_Witness == \E c \in Conns : Open(c) /\ c \in accepted /\ obj[c].onlineKey = "K1"

(* C3: a session whose key command was accepted is never sent denied,key   *)
(* nor closed for a missing key by a sweep.                                *)
C3_NoKeyTimeoutOnceAccepted == \A c \in Conns : c \in accepted => closedBy[c] # "nokey"

(* C4: a sweep sends denied,key to every open session that holds no key    *)
(* and connected more than KeyTimeout ago, and closes it; with sweeps and  *)
(* time running, no session stays open without an accepted key for ever.   *)
C4_SweepRejects ==
    alarmDue =>
        \A c \in Conns :
            (Open(c) /\ c \notin accepted /\ now - obj[c].connectTime > KeyTimeout) =>
                /\ SentFrame(alarmRun, c, <<"denied", "key">>)
                /\ alarmRun.sockets[c] = "closing"
                /\ alarmRun.closedBy[c] = "nokey"

C4_UnauthenticatedRejected ==
    /\ []C4_SweepRejects
    /\ \A c \in 1..MaxConn :
          (Open(c) /\ c \notin accepted) ~> ~(Open(c) /\ c \notin accepted)

C4_Witness == \E c \in Conns : c \notin accepted /\ closedBy[c] = "nokey" /\ sockets[c] = "closing"

(* C5: a sweep closes a session for heartbeat timeout only if a probe is   *)
(* outstanding, a further BeatTimeout has passed since that probe, and the *)
(* session has been silent for two windows.                                *)
C5_ClosedAfterTwoWindows ==
    alarmDue =>
        \A c \in Conns :
            (Open(c) /\ alarmRun.closedBy[c] = "beat") =>
                /\ obj[c].beatWaiting /\ probeAt[c] # NoAlarm
                /\ now - probeAt[c] >= BeatTimeout
                /\ now - obj[c].lastActivity >= 2 * BeatTimeout

(* C6: a sweep probes a session at most once, only when it has been idle   *)
(* for more than BeatTimeout with no probe outstanding, and does probe     *)
(* every such open session it does not reject; no other handler probes.    *)
C6_OneProbePerWindow ==
    /\ alarmDue =>
          \A c \in Conns :
              /\ Sent(alarmRun, c, "heartbeat") =>
                    /\ Open(c) /\ now - obj[c].lastActivity > BeatTimeout
                    /\ ~obj[c].beatWaiting /\ alarmRun.obj[c].beatWaiting
                    /\ CountSent(alarmRun, c, "heartbeat") = 1
              /\ (Open(c) /\ ~Falsy(obj[c].onlineKey) /\ ~obj[c].beatWaiting
                     /\ now - obj[c].lastActivity > BeatTimeout) =>
                    Sent(alarmRun, c, "heartbeat")
    /\ \A i \in 1..Len(IPs) : NoneSent(fetch(Begin, IPs[i]), "heartbeat")
    /\ \A d \in Conns : Open(d) => \A m \in Inbound : NoneSent(received(d, m), "heartbeat")
    /\ \A d \in Conns : Closable(d) => NoneSent(closeEvent(d), "heartbeat")

C6_Witness == \E c \in Conns : Open(c) /\ obj[c].beatWaiting /\ probeAt[c] = now

(* C7: every inbound frame of a registered session sets lastActivity to    *)
(* now and clears beatWaiting; a sweep does not close for heartbeat a      *)
(* session with no probe outstanding, and does not close it at all when it *)
(* holds a key.                                                            *)
C7_TrafficIsLiveness ==
    /\ \A c \in Conns :
          (Open(c) /\ c \in clients) =>
              \A m \in Inbound :
                  LET R == received(c, m)
                  IN  R.obj[c].lastActivity = now /\ ~R.obj[c].beatWaiting
    /\ alarmDue =>
          \A c \in Conns :
              (Open(c) /\ ~obj[c].beatWaiting) =>
                  /\ alarmRun.closedBy[c] # "beat"
                  /\ ~Falsy(obj[c].onlineKey) => alarmRun.sockets[c] = "open"

C7_Witness ==
    \E c \in Conns :
        /\ Open(c) /\ obj[c].owner # NoClient /\ ~obj[c].beatWaiting
        /\ obj[c].lastActivity = now /\ now - obj[c].connectTime > BeatTimeout
        /\ alarmAt = now + AlarmDelay

(* C8: create with a key other than the caller's onlineKey adds no room,   *)
(* sends nothing and leaves the caller's room, nickname, avatar and status *)
(* alone; with the caller's onlineKey it appends exactly one room with     *)
(* that key owned by the caller, points the caller's room at it, clears    *)
(* its status and sends it createroom,key.                                 *)
C8_CreateNeedsOwnKey ==
    \A c \in Conns :
        (Open(c) /\ ~isRelayed(Begin, c)) =>
            \A k \in AllKeyArgs, n \in NickArgs :
                LET R == received(c, CreateMsg(k, n, "av1", "cfgOpen"))
                IN  IF obj[c].onlineKey # k
                    THEN /\ R.rooms = rooms /\ R.roomObj = roomObj /\ R.out = <<>>
                         /\ R.obj[c].room = obj[c].room
                         /\ R.obj[c].nickname = obj[c].nickname
                         /\ R.obj[c].avatar = obj[c].avatar
                         /\ R.obj[c].status = obj[c].status
                    ELSE /\ Len(R.rooms) = Len(rooms) + 1
                         /\ SubSeq(R.rooms, 1, Len(rooms)) = rooms
                         /\ R.rooms[Len(R.rooms)] \notin {rooms[i] : i \in 1..Len(rooms)}
                         /\ R.roomObj[R.rooms[Len(R.rooms)]].key = k
                         /\ R.roomObj[R.rooms[Len(R.rooms)]].owner = c
                         /\ R.obj[c].room = R.rooms[Len(R.rooms)]
                         /\ R.obj[c].status = JUndef
                         /\ R.out = << <<c, <<"createroom", k>>>> >>

C8_Witness ==
    \E c \in Conns :
        /\ Open(c) /\ obj[c].onlineKey = "K1" /\ obj[c].room # NoRoom
        /\ roomObj[obj[c].room].owner = c /\ roomObj[obj[c].room].key = "K1"
        /\ obj[c].status = JUndef

(* C9: the owner of every room in the directory is a session whose key     *)
(* command was accepted.                                                   *)
C9_OwnersAuthenticated ==
    \A i \in 1..Len(rooms) : roomObj[rooms[i]].owner \in accepted

(* The room enter(k) resolves to is one that a created with its accepted key k. *)
CreatedBy(a, k) ==
    /\ a \in accepted /\ obj[a].onlineKey = k /\ ~Falsy(k)
    /\ findRoom(Begin, k) # NoRoom
    /\ roomObj[findRoom(Begin, k)].owner = a

EnterMakesGuest(a, b, k) ==
    \A n \in NickArgs :
        LET R == received(b, EnterMsg(k, n, "av1", JUndef, JUndef))
        IN  /\ R.obj[b].owner = a
            /\ SentFrame(R, a, <<"onconnection", b>>)
            /\ ~Sent(R, b, "enterroomfailed")

(* C10 as stated: once a holds an accepted key and has created its room,   *)
(* enter for that key by another session makes it a guest of a.            *)
C10_EnterAfterCreate ==
    \A a \in Conns, b \in Conns :
        (a # b /\ Open(a) /\ Open(b) /\ ~isRelayed(Begin, b) /\ CreatedBy(a, "K1")) =>
            EnterMakesGuest(a, b, "K1")

(* C10 amended: the same once a has published, with config, a config that  *)
(* lets the room be joined.                                                *)
C10_EnterAfterCreateAndConfig ==
    \A a \in Conns, b \in Conns :
        (a # b /\ Open(a) /\ Open(b) /\ ~isRelayed(Begin, b) /\ CreatedBy(a, "K1")
             /\ roomObj[findRoom(Begin, "K1")].config \in {"cfgOpen", "cfgObserve"}) =>
            EnterMakesGuest(a, b, "K1")

C10_Witness ==
    \E a \in Conns, b \in Conns :
        /\ a # b /\ Open(a) /\ Open(b) /\ CreatedBy(a, "K1")
        /\ obj[b].owner = a /\ obj[b].room = findRoom(Begin, "K1")
        /\ roomObj[obj[b].room].config = "cfgOpen"

(* The enter frames a non-relayed session can send: any key, with and      *)
(* without the config and mode arguments.                                  *)
EnterFrames ==
    {EnterMsg(k, Nick, "av1", cfg, mode) :
        k \in AllKeyArgs, cfg \in {JUndef, "cfgOpen"}, mode \in {JUndef, "auto"}}

EnterFails(R, c) ==
    /\ SentFrame(R, c, <<"enterroomfailed">>)
    /\ R.obj[c].owner = NoClient
    /\ R.sockets[c] = "open"
    /\ \A d \in Conns : ~Sent(R, d, "onconnection")

EnterJoins(R, c, o) ==
    /\ R.obj[c].owner = o
    /\ ~Sent(R, c, "enterroomfailed")
    /\ Open(o) => (SentFrame(R, o, <<"onconnection", c>>) /\ CountSent(R, o, "onconnection") = 1)

(* C11: enter by a non-relayed session c. With no room of the given key c  *)
(* gets enterroomfailed. With an owned room that is not a server claim, c  *)
(* gets enterroomfailed exactly when the room has no config or its config  *)
(* marks the game started without observation enabled and ready; otherwise *)
(* c's owner becomes the room's owner, who is sent onconnection,c (when    *)
(* its socket is open). A failing enter leaves c's socket open.            *)
C11_EnterDecision ==
    \A c \in Conns :
        (Open(c) /\ c \in clients /\ ~isRelayed(Begin, c)) =>
            \A m \in EnterFrames :
                LET R == received(c, m)
                    r == findRoom(Begin, m.key)
                    cfg == roomObj[r].config
                IN  IF r = NoRoom THEN EnterFails(R, c)
                    ELSE (roomObj[r].owner # NoClient /\ ~roomObj[r].servermode) =>
                            IF cfg = JUndef \/ (cfg \in {"cfgStarted", "cfgObserveWait"})
                            THEN EnterFails(R, c)
                            ELSE EnterJoins(R, c, roomObj[r].owner)

(* A session has joined, as a guest, a started game that can be observed,  *)
(* while another enter of an open session is about to fail.                *)
C11_Witness ==
    \E c \in Conns, o \in Conns :
        /\ c # o /\ Open(c) /\ Open(o) /\ c \in clients /\ o \in clients
        /\ obj[c].owner = o /\ obj[c].room # NoRoom
        /\ roomObj[obj[c].room].owner = o
        /\ roomObj[obj[c].room].config = "cfgObserve"

OwnedRooms(c) == {rooms[i] : i \in {j \in 1..Len(rooms) : roomObj[rooms[j]].owner = c}}

(* C12: after the close event of a registered session c, no room owned by  *)
(* c is left in the directory, every other registered session whose room   *)
(* was one of them has been sent selfclose (when its socket is open), and  *)
(* no remaining session has a room reference to a destroyed room.          *)
C12_OwnerCloseDetaches ==
    \A c \in Conns :
        (Closable(c) /\ c \in clients) =>
            LET R == closeEvent(c)
            IN  /\ \A i \in 1..Len(R.rooms) : R.roomObj[R.rooms[i]].owner # c
                /\ \A d \in clients \ {c} :
                       (obj[d].room \in OwnedRooms(c) /\ Open(d)) => SentFrame(R, d, <<"selfclose">>)
                /\ \A d \in R.clients : R.obj[d].room \notin OwnedRooms(c)

(* The handler result R differs from the current state at most in c's      *)
(* activity stamp and pending-probe flag.                                  *)
OnlyTouched(R, c) ==
    /\ R.clients = clients /\ R.sockets = sockets /\ R.closedBy = closedBy
    /\ R.rooms = rooms /\ R.roomObj = roomObj /\ R.events = events
    /\ R.bannedIps = bannedIps /\ R.accepted = accepted /\ R.alarmAt = alarmAt
    /\ R.obj = [obj EXCEPT ![c].lastActivity = now, ![c].beatWaiting = FALSE]

RelayedOnce(R, c, m) ==
    LET o == obj[c].owner
    IN  /\ OnlyTouched(R, c)
        /\ IF Open(o)
           THEN /\ Len(R.out) = 1
                /\ R.out[1][1] = o
                /\ R.out[1][2][1] = "onmessage"
                /\ R.out[1][2][2] = c
                /\ R.out[1][2][3] = m
           ELSE R.out = <<>>

TargetIds == Conns \cup {Len(obj) + 1}

(* C14: send and close, issued by a non-relayed session c for target id.   *)
(* When id is registered with owner c, send delivers the raw message to id *)
(* (socket open) and changes nothing else, and close leaves id's socket    *)
(* not open and sends nothing. For any other target, known or unknown,     *)
(* nothing is sent, no socket is closed and nothing but c's activity stamp *)
(* changes.                                                                *)
C14_SendCloseOnlyByOwner ==
    \A c \in Conns :
        (Open(c) /\ c \in clients /\ obj[c].owner = NoClient) =>
            \A id \in TargetIds :
                LET Rs == received(c, SendMsg(id, "payload"))
                    Rc == received(c, CloseMsg(id))
                IN  IF id \in clients /\ obj[id].owner = c
                    THEN /\ Open(id) =>
                               (OnlyTouched(Rs, c) /\ Rs.out = << <<id, <<"raw", "payload">>>> >>)
                         /\ Rc.sockets[id] # "open"
                         /\ \A d \in Conns \ {id} : Rc.sockets[d] = sockets[d]
                         /\ Rc.out = <<>>
                    ELSE /\ OnlyTouched(Rs, c) /\ Rs.out = <<>>
                         /\ OnlyTouched(Rc, c) /\ Rc.out = <<>>

(* An owner has closed its guest with the close command, and the guest's   *)
(* close event has not been handled yet.                                   *)
C14_Witness ==
    \E g \in Conns :
        /\ closedBy[g] = "kick" /\ sockets[g] = "closing" /\ g \in clients
        /\ obj[g].owner \in clients /\ Open(obj[g].owner)

(* The client list carried by a broadcast frame. *)
ClientListOf(frame) == IF frame[1] = "updaterooms" THEN frame[3] ELSE frame[2]

Broadcasts(R) == {i \in 1..Len(R.out) : R.out[i][2][1] \in {"updaterooms", "updateclients"}}

(* C15: the close event of a registered session c. Its owner, if it has    *)
(* one (socket open), is sent onclose,c; c leaves the registry; then every *)
(* open lobby session is sent updaterooms if c had a room and              *)
(* updateclients otherwise, never the other; the onclose frame precedes    *)
(* the broadcast; and c is in no client list, sent or computed afterwards. *)
C15_CloseNotifiesAndRemoves ==
    \A c \in Conns :
        (Closable(c) /\ c \in clients) =>
            LET R == closeEvent(c)
                o == obj[c].owner
                tag == IF obj[c].room # NoRoom THEN "updaterooms" ELSE "updateclients"
                other == IF obj[c].room # NoRoom THEN "updateclients" ELSE "updaterooms"
            IN  /\ (o # NoClient /\ Open(o) /\ o # c) =>
                       \E i \in 1..Len(R.out) :
                           /\ R.out[i] = <<o, <<"onclose", c>>>>
                           /\ \A j \in Broadcasts(R) : i < j
                /\ o = NoClient => NoneSent(R, "onclose")
                /\ c \notin R.clients
                /\ \A d \in R.clients :
                       (R.obj[d].room = NoRoom /\ Open(d)) => CountSent(R, d, tag) = 1
                /\ NoneSent(R, other)
                /\ \A i \in Broadcasts(R) :
                       \A e \in 1..Len(ClientListOf(R.out[i][2])) :
                           ClientListOf(R.out[i][2])[e][5] # c
                /\ \A e \in 1..Len(getclientlist(R)) : getclientlist(R)[e][5] # c

(* A guest of a connected owner closes: the owner is told and the guest   *)
(* has left the registry.                                                  *)
C15_Witness ==
    \E c \in Conns :
        /\ Closable(c) /\ c \in clients
        /\ obj[c].owner # NoClient /\ obj[c].owner # c /\ Open(obj[c].owner)
        /\ Sent(closeEvent(c), obj[c].owner, "onclose")
        /\ c \notin closeEvent(c).clients

BannedKeyMsg == KeyMsg([obj |-> TRUE, k |-> "KB"])

(* fetch from ip on state R refuses the socket: denied,"banned", close, no *)
(* roomlist.                                                               *)
Refused(R, ip) ==
    LET n == Len(R.obj) + 1
        R2 == fetch(R, ip)
    IN  /\ R2.sockets[n] = "closing"
        /\ SentFrame(R2, n, <<"denied", "banned">>)
        /\ ~Sent(R2, n, "roomlist")

(* C16: a key command of a non-relayed session c whose key is on the       *)
(* banned-key list adds c's IP to the banned IPs, closes c's socket, sends *)
(* no frame and leaves c's onlineKey and acceptance as they were; a        *)
(* connection from that IP right afterwards is refused without a roomlist. *)
(* No handler removes an IP from the banned IPs, so every later connection *)
(* from it meets the same test.                                            *)
C16_BannedKeyBansIp ==
    /\ \A c \in Conns :
          (Open(c) /\ c \in clients /\ obj[c].owner = NoClient) =>
              LET R == received(c, BannedKeyMsg)
              IN  /\ R.bannedIps = bannedIps \cup {obj[c].clientIp}
                  /\ R.sockets[c] = "closing"
                  /\ R.out = <<>>
                  /\ R.obj[c].onlineKey = obj[c].onlineKey
                  /\ R.accepted = accepted
                  /\ Refused(R, obj[c].clientIp)
    /\ \A d \in Conns : Open(d) => \A m \in Inbound : bannedIps \subseteq received(d, m).bannedIps
    /\ \A d \in Conns : Closable(d) => bannedIps \subseteq closeEvent(d).bannedIps
    /\ \A i \in 1..Len(IPs) : bannedIps \subseteq fetch(Begin, IPs[i]).bannedIps
    /\ alarmDue => bannedIps \subseteq alarmRun.bannedIps

(* A session was closed for a banned key, its IP is banned, and a later    *)
(* connection from the same IP has been refused.                           *)
C16_Witness ==
    \E c \in Conns, d \in Conns :
        /\ c < d /\ closedBy[c] = "bannedkey" /\ closedBy[d] = "bannedip"
        /\ obj[d].clientIp \in bannedIps

(* Frames that are not a sequence headed by the tag server: text that does *)
(* not parse to an array, and an array with another first element.         *)
NotServerFrames == {Junk, OtherTag}

(* C17: every frame of a non-relayed session that is not the heartbeat and *)
(* is not a sequence headed by server is answered with denied,"banned";    *)
(* the socket stays open and the session keeps its registration, room,     *)
(* owner and onlineKey.                                                    *)
C17_MalformedDenied ==
    \A c \in Conns :
        (Open(c) /\ c \in clients /\ obj[c].owner = NoClient) =>
            \A m \in NotServerFrames :
                LET R == received(c, m)
                IN  /\ R.out = << <<c, <<"denied", "banned">>>> >>
                    /\ OnlyTouched(R, c)

(* The directory never holds a free slot: every room has an owner, no room *)
(* is in servermode and no handoff is pending.                             *)
RoomsAlwaysOwned ==
    /\ \A i \in 1..Len(rooms) :
          roomObj[rooms[i]].owner # NoClient /\ ~roomObj[rooms[i]].servermode
    /\ \A c \in clients : obj[c].onconfig = NoClient

(* The state after H sends server with cfgS, C sends enter for key k with  *)
(* config and mode, and H sends config with cfg.                           *)
Handoff(H, C, cfgS, k, cfg) ==
    LET S1 == webSocketMessage(Begin, H, ServerMsg(cfgS))
        S2 == webSocketMessage(S1, C, EnterMsg(k, Nick, "av1", "cfgOpen", "auto"))
    IN  webSocketMessage(S2, H, ConfigMsg(cfg))

(* C18: for two connected lobby sessions H and C, H's server command, C's  *)
(* enter with config and mode on H's room and H's config end with C the    *)
(* only session whose owner is H, no handoff pending, and H's room out of  *)
(* servermode with the config H published.                                 *)
C18_OwnershipTransfer ==
    \A H \in Conns, C \in Conns :
        (/\ H # C /\ Open(H) /\ Open(C) /\ H \in clients /\ C \in clients
         /\ obj[H].owner = NoClient /\ obj[C].owner = NoClient
         /\ obj[H].room = NoRoom /\ obj[C].room = NoRoom) =>
            \E cfgS \in ServerArgs, k \in AllKeyArgs :
                LET R == Handoff(H, C, cfgS, k, "cfgStarted")
                IN  /\ {d \in R.clients : R.obj[d].owner = H} = {C}
                    /\ R.obj[H].onconfig = NoClient
                    /\ R.obj[H].room # NoRoom
                    /\ R.roomObj[R.obj[H].room].config = "cfgStarted"
                    /\ ~R.roomObj[R.obj[H].room].servermode

(* The effect of config on rooms and handoffs, for the result R of the     *)
(* command issued by c with argument cfg.                                  *)
ConfigEffect(R, c, cfg) ==
    LET r == obj[c].room
    IN  IF r # NoRoom /\ roomObj[r].owner = c
        THEN /\ R.roomObj[r].config = cfg
             /\ \A q \in 1..Len(roomObj) : q # r => R.roomObj[q] = roomObj[q]
        ELSE /\ R.roomObj = roomObj
             /\ \A d \in Conns : R.obj[d].onconfig = obj[d].onconfig
                                    /\ R.obj[d].owner = obj[d].owner

LobbyGetsRooms(R) ==
    \A d \in clients : (obj[d].room = NoRoom /\ Open(d)) => CountSent(R, d, "updaterooms") = 1

(* C19: config issued by session c sets the config of c's room when that   *)
(* room's owner is c, and of no other room; issued by any other session    *)
(* (a member that is not the owner, a lobby session) it leaves every       *)
(* room's config and servermode flag and every pending handoff as they     *)
(* were. In both cases every open lobby session is sent updaterooms. The   *)
(* same is checked for the command as received from a non-relayed session. *)
C19_ConfigOnlyByOwner ==
    \A c \in clients : \A cfg \in RoomConfigArgs \cup {JUndef} :
        /\ ConfigEffect(config(Begin, c, cfg), c, cfg)
        /\ LobbyGetsRooms(config(Begin, c, cfg))
        /\ (Open(c) /\ obj[c].owner = NoClient) =>
               /\ ConfigEffect(received(c, ConfigMsg(cfg)), c, cfg)
               /\ LobbyGetsRooms(received(c, ConfigMsg(cfg)))

(* An owner that has published a started game republishes while a lobby    *)
(* session is connected; the lobby session's own config command changes no *)
(* room.                                                                   *)
C19_Witness ==
    \E c \in Conns, d \in Conns :
        /\ Open(c) /\ Open(d) /\ c \in clients /\ d \in clients
        /\ obj[c].room # NoRoom /\ roomObj[obj[c].room].owner = c
        /\ roomObj[obj[c].room].config = "cfgStarted"
        /\ obj[d].room = NoRoom
        /\ received(c, ConfigMsg("cfgOpen")).roomObj[obj[c].room].config = "cfgOpen"
        /\ Sent(received(c, ConfigMsg("cfgOpen")), d, "updaterooms")
        /\ received(d, ConfigMsg("cfgOpen")).roomObj = roomObj

(* The rooms of state R that have an owner and a published config. *)
PublishedRooms(R) ==
    {i \in 1..Len(R.rooms) :
        R.roomObj[R.rooms[i]].owner # NoClient /\ R.roomObj[R.rooms[i]].config \in RoomConfigArgs}

(* Every entry of list that is not the server marker is the entry of a     *)
(* published room of R, and there are no more such entries than published  *)
(* rooms.                                                                  *)
ListsOnlyPublished(R, list) ==
    /\ \A e \in 1..Len(list) :
          list[e].kind # "server" =>
              /\ list[e].kind = "room"
              /\ \E i \in PublishedRooms(R) :
                     /\ list[e].key = R.roomObj[R.rooms[i]].key
                     /\ list[e].config = R.roomObj[R.rooms[i]].config
                     /\ list[e].nickname = R.obj[R.roomObj[R.rooms[i]].owner].nickname
    /\ Cardinality({e \in 1..Len(list) : list[e].kind # "server"}) <= Cardinality(PublishedRooms(R))

RoomListFrames(R) == {i \in 1..Len(R.out) : R.out[i][2][1] \in {"roomlist", "updaterooms"}}

FramesListOnlyPublished(R) == \A i \in RoomListFrames(R) : ListsOnlyPublished(R, R.out[i][2][2])

(* C20: the room list computed in any reachable state, and the room list   *)
(* carried by every roomlist and updaterooms frame that a connect, an      *)
(* inbound frame or a close event sends, has only entries of rooms that    *)
(* have an owner and a published config (besides server markers).          *)
C20_ListOnlyPublishedRooms ==
    /\ ListsOnlyPublished(Begin, getroomlist(Begin).list)
    /\ \A i \in 1..Len(IPs) : FramesListOnlyPublished(fetch(Begin, IPs[i]))
    /\ \A c \in Conns : Open(c) => \A m \in Inbound : FramesListOnlyPublished(received(c, m))
    /\ \A c \in Conns : Closable(c) => FramesListOnlyPublished(closeEvent(c))

(* Two rooms, one with a published config and one without: the computed   *)
(* list has one entry.                                                     *)
C20_Witness ==
    /\ Len(rooms) = 2
    /\ Cardinality(PublishedRooms(Begin)) = 1
    /\ Len(getroomlist(Begin).list) = 1

PushTags == {"updaterooms", "updateclients", "updateevents"}

Recipients(R, tag) == {R.out[i][1] : i \in {j \in 1..Len(R.out) : R.out[j][2][1] = tag}}

(* The sessions of state R a push can reach: registered, no room, socket   *)
(* open.                                                                   *)
Lobby(R) == {d \in R.clients : R.obj[d].room = NoRoom /\ R.sockets[d] = "open"}

(* In the result R of a handler, a push of any of the three kinds went to  *)
(* no session that has a room or is not registered, and, if it was made,   *)
(* to every lobby session once.                                            *)
PushesLobbyOnly(R) ==
    \A tag \in PushTags :
        /\ \A d \in Recipients(R, tag) : d \in R.clients /\ R.obj[d].room = NoRoom
        /\ Recipients(R, tag) # {} =>
               \A d \in Lobby(R) : CountSent(R, d, tag) = 1

(* C22: each of updaterooms, updateclients and updateevents, run in any    *)
(* reachable state, sends its frame to exactly the registered sessions     *)
(* without a room (whose socket is open); and in the result of every       *)
(* connect, inbound frame and close event no push has reached a session    *)
(* with a room, while a push that was made has reached every lobby         *)
(* session.                                                                *)
C22_LobbyOnlyFanOut ==
    /\ Recipients(updaterooms(Begin), "updaterooms") = Lobby(Begin)
    /\ Recipients(updateclients(Begin), "updateclients") = Lobby(Begin)
    /\ Recipients(updateevents(Begin), "updateevents") = Lobby(Begin)
    /\ \A c \in Conns : Open(c) => \A m \in Inbound : PushesLobbyOnly(received(c, m))
    /\ \A c \in Conns : Closable(c) => PushesLobbyOnly(closeEvent(c))
    /\ \A i \in 1..Len(IPs) : PushesLobbyOnly(fetch(Begin, IPs[i]))

(* A session with a room and a lobby session are connected, and a config   *)
(* command and an accepted event submission push to the lobby session      *)
(* only.                                                                   *)
C22_Witness ==
    \E c \in Conns, d \in Conns :
        /\ Open(c) /\ Open(d) /\ c \in clients /\ d \in clients
        /\ obj[c].room # NoRoom /\ obj[c].owner = NoClient /\ obj[c].onlineKey = "K1"
        /\ obj[d].room = NoRoom
        /\ Recipients(received(c, ConfigMsg("cfgOpen")), "updaterooms") = {d}
        /\ Recipients(received(c, EventsMsg(EventRecord(1000, Text(<<"hi">>)), "K1", JUndef)),
                      "updateevents") = {d}

LiveEvents(S) == {i \in 1..Len(S.events) : S.events[i].utc > S.now}

(* Full event records: in the past, in the future, with and without a      *)
(* banned keyword.                                                         *)
Records ==
    {EventRecord(utc, Text(w)) : utc \in {0, EventStep, 2 * EventStep},
                                 w \in {<<"hi">>, <<"a", "BW", "b">>}}

(* An open, registered, non-relayed session that holds the truthy key k. *)
Holds(c, k) ==
    /\ Open(c) /\ c \in clients /\ obj[c].owner = NoClient
    /\ obj[c].onlineKey = k /\ k \in {"K1", "K2"}

(* C23: the event list never holds more than 20 events, no handler makes   *)
(* it longer than that, and with 20 unexpired events in the list a full    *)
(* record submitted with the sender's own key is answered with             *)
(* eventsdenied,"total" and leaves the list as it is.                      *)
C23_AtMostTwentyEvents ==
    /\ Len(events) <= EventCap
    /\ \A c \in Conns : \A k \in {"K1", "K2"} : \A cand \in Records :
          Holds(c, k) =>
              LET R == received(c, EventsMsg(cand, k, JUndef))
              IN  /\ Len(R.events) <= EventCap
                  /\ Cardinality(LiveEvents(Begin)) = EventCap =>
                         /\ R.out = << <<c, <<"eventsdenied", "total">>>> >>
                         /\ R.events = events
                         /\ R.sockets[c] = "open"

(* The list holds 20 unexpired events and a session that could submit is   *)
(* connected.                                                              *)
C23_Witness ==
    /\ Len(events) = EventCap
    /\ Cardinality(LiveEvents(Begin)) = EventCap
    /\ \E c \in Conns : Holds(c, "K1")

StillAhead(e) == e.utc > now

HasKeyword(content) == \E i \in 1..Len(content.words) : content.words[i] = "BW"

DeniedWith(R, c, why) ==
    /\ R.out = << <<c, <<"eventsdenied", why>>>> >>
    /\ R.events = events
    /\ R.sockets[c] = "open"

Accepted(R, k, cand) ==
    /\ Len(R.events) >= 1
    /\ R.events[1].utc = cand.utc
    /\ R.events[1].content = cand.content
    /\ R.events[1].creator = k
    /\ R.events[1].members = <<k>>
    /\ R.events[1].id \notin eventIds(events)
    /\ Tail(R.events) = SelectSeq(events, StillAhead)

(* What the handler does with a full record: the decision of C24 with the  *)
(* length of the list in the place of the number of live events.           *)
SubmitByListLength ==
    \A c \in Conns : \A k \in {"K1", "K2"} : \A cand \in Records :
        Holds(c, k) =>
            LET R == received(c, EventsMsg(cand, k, JUndef))
            IN  IF Len(events) >= EventCap THEN DeniedWith(R, c, "total")
                ELSE IF cand.utc <= now THEN DeniedWith(R, c, "time")
                ELSE IF HasKeyword(cand.content) THEN DeniedWith(R, c, "ban")
                ELSE Accepted(R, k, cand) /\ ~Sent(R, c, "eventsdenied")
                         /\ R.sockets[c] = "open"

(* C24: a full record submitted by a session with its own key k. It is     *)
(* accepted only if fewer than 20 events are live, its utc is in the       *)
(* future and its content has no banned keyword; when one of the three     *)
(* fails the sender gets eventsdenied with the reason of a test that       *)
(* failed (total, time, ban) and the list is unchanged; an accepted event  *)
(* is the head of the list, carries a new id, has exactly the member k,    *)
(* and is followed by the other events in their old order.                 *)
C24_SubmitDecision ==
    \A c \in Conns : \A k \in {"K1", "K2"} : \A cand \in Records :
        Holds(c, k) =>
            LET R == received(c, EventsMsg(cand, k, JUndef))
                fewer == Cardinality(LiveEvents(Begin)) < EventCap
                ahead == cand.utc > now
                clean == ~HasKeyword(cand.content)
            IN  /\ ~Sent(R, c, "eventsdenied") =>
                       (fewer /\ ahead /\ clean /\ Accepted(R, k, cand))
                /\ ~(fewer /\ ahead /\ clean) =>
                       \/ ~fewer /\ DeniedWith(R, c, "total")
                       \/ ~ahead /\ DeniedWith(R, c, "time")
                       \/ ~clean /\ DeniedWith(R, c, "ban")

Unexpired(ev) == \A i \in 1..Len(ev) : ev[i].utc > now

(* The event lists carried by the frames of R: field 3 of a roomlist       *)
(* snapshot, field 2 of an updateevents broadcast.                         *)
EventLists(R) ==
    {R.out[i][2][3] : i \in {j \in 1..Len(R.out) : R.out[j][2][1] = "roomlist"}}
        \cup {R.out[i][2][2] : i \in {j \in 1..Len(R.out) : R.out[j][2][1] = "updateevents"}}

ListsArePurged(R) ==
    /\ Unexpired(R.events)
    /\ \A ev \in EventLists(R) : ev = SelectSeq(events, StillAhead)

(* C25: the event list computed for a connect snapshot or for an           *)
(* updateevents broadcast, from any reachable state, holds no event whose  *)
(* utc is at or before the current time and is exactly the unexpired       *)
(* events of the stored list in their old order; the stored list is purged *)
(* by the same step. Every updateevents frame any events command sends     *)
(* carries no expired event either.                                        *)
C25_ExpiredEventsPurged ==
    /\ \A ip \in connectIps \ bannedIps :
           LET R == fetch(Begin, ip)
           IN  ListsArePurged(R) /\ Sent(R, Len(obj) + 1, "roomlist")
    /\ ListsArePurged(updateevents(Begin))
    /\ Lobby(Begin) # {} => Sent(updateevents(Begin), MinOf(Lobby(Begin)), "updateevents")
    /\ \A c \in Conns : \A m \in EventFrames :
           Open(c) => \A ev \in EventLists(received(c, m)) : Unexpired(ev)

(* A stored list with two adjacent expired events ahead of a live one,     *)
(* and a lobby session to broadcast to.                                    *)
C25_Witness ==
    /\ Len(events) = 3
    /\ events[1].utc <= now /\ events[2].utc <= now /\ events[3].utc > now
    /\ Lobby(Begin) # {}

Keys(members) == {members[i] : i \in 1..Len(members)}

NoDuplicates(members) == Cardinality(Keys(members)) = Len(members)

WellFormedMembers(ev) ==
    \A i \in 1..Len(ev) : Len(ev[i].members) >= 1 /\ NoDuplicates(ev[i].members)

WithId(ev, eid) == {i \in 1..Len(ev) : ev[i].id = eid}

Without(members, k) == SelectSeq(members, LAMBDA x : x # k)

(* A join by the holder of k on the live event e: e stays, k is in its     *)
(* members once, the other members are as they were.                       *)
JoinEffect(R, e, k) ==
    \E j \in WithId(R.events, e.id) :
        /\ k \in Keys(R.events[j].members)
        /\ Without(R.events[j].members, k) = Without(e.members, k)
        /\ Len(R.events[j].members) = Cardinality(Keys(e.members) \cup {k})

(* A leave: the event goes when k was its only member; otherwise it stays  *)
(* without k.                                                              *)
LeaveEffect(R, e, k) ==
    IF Keys(e.members) = {k} THEN WithId(R.events, e.id) = {}
    ELSE \E j \in WithId(R.events, e.id) : R.events[j].members = Without(e.members, k)

(* C26: in every reachable state, and in the result of every join or leave *)
(* from it, every event has at least one member and no key twice; a join   *)
(* adds the caller's key at most once and a leave of the last member       *)
(* removes the event in the same step.                                     *)
C26_MembersNonEmptyNoDuplicates ==
    /\ WellFormedMembers(events)
    /\ \A c \in Conns : \A k \in {"K1", "K2"} : \A i \in 1..Len(events) :
           (Holds(c, k) /\ StillAhead(events[i])) =>
               LET J == received(c, EventsMsg(EventRef(events[i].id), k, "join"))
                   L == received(c, EventsMsg(EventRef(events[i].id), k, "leave"))
               IN  /\ WellFormedMembers(J.events) /\ JoinEffect(J, events[i], k)
                   /\ WellFormedMembers(L.events) /\ LeaveEffect(L, events[i], k)

(* Someone joined an event and its creator left: the joiner, still         *)
(* connected, is the only member.                                          *)
C26_Witness ==
    \E c \in Conns : \E i \in 1..Len(events) :
        /\ Holds(c, "K2") /\ events[i].creator = "K1"
        /\ events[i].members = <<"K2">> /\ StillAhead(events[i])

AuthKeys == {JNull, JUndef, "", "K1", "K2", "KB"}

EventCommands ==
    {EventsMsg(cand, id, type) :
        cand \in {NoCand, EventRef(1), EventRecord(2 * EventStep, Plain)},
        id \in AuthKeys, type \in {"join", "leave", JUndef}}

(* The auth key is on the ban list or is not the key this session          *)
(* validated (a session that validated none matches nothing).              *)
WrongAuthKey(c, id) ==
    id \in bannedKeys \/ id # obj[c].onlineKey \/ obj[c].onlineKey \in {JNull, JUndef}

(* C27: an events command handled for an open session whose auth key is    *)
(* banned or is not the session's validated key: the sender's IP is in the *)
(* banned-IP set afterwards, its socket is being closed, no frame is sent  *)
(* and the event list with every members sequence is as before. A command  *)
(* with the session's own key bans nobody and leaves the socket open.      *)
C27_WrongKeyBansAndCloses ==
    \A c \in Conns : \A m \in EventCommands :
        (Open(c) /\ c \in clients /\ obj[c].owner = NoClient) =>
            LET R == received(c, m)
            IN  IF WrongAuthKey(c, m.authKey)
                THEN /\ R.bannedIps = bannedIps \cup {obj[c].clientIp}
                     /\ R.sockets[c] = "closing"
                     /\ R.closedBy[c] = "eventskey"
                     /\ R.events = events
                     /\ R.out = <<>>
                ELSE R.bannedIps = bannedIps /\ R.sockets[c] = "open"

(* A key holder was banned for a join with somebody else's key while       *)
(* events were on the board.                                               *)
C27_Witness ==
    \E c \in Conns :
        /\ closedBy[c] = "eventskey" /\ sockets[c] = "closing"
        /\ obj[c].onlineKey = "K1" /\ obj[c].clientIp \in bannedIps
        /\ Len(events) >= 1

(* C28: no session is its own relay target, and a session with a relay     *)
(* target does not own the room it is in as a guest.                       *)
C28_NoSelfLoop ==
    \A c \in clients :
        /\ obj[c].owner # c
        /\ (obj[c].owner # NoClient /\ obj[c].room # NoRoom) =>
               roomObj[obj[c].room].owner # c

(* c is a registered, connected guest whose relay target left the registry. *)
Orphaned(c) ==
    /\ Open(c) /\ c \in clients
    /\ obj[c].owner # NoClient /\ obj[c].owner \notin clients

(* C29: a relay target that is no longer in the registry has no open       *)
(* connection, and a frame received from its former guest is delivered to  *)
(* nobody (in particular not to the departed owner) and changes nothing    *)
(* but the guest's activity stamp.                                         *)
C29_DepartedOwnerGetsNothing ==
    \A c \in Conns :
        Orphaned(c) =>
            /\ sockets[obj[c].owner] = "closed"
            /\ \A m \in Inbound :
                   LET R == received(c, m)
                   IN  R.out = <<>> /\ OnlyTouched(R, c)

(* The owner of a joined room has disconnected and its guest is still on.  *)
C29_Witness ==
    \E c \in Conns :
        /\ Orphaned(c) /\ obj[c].owner # c
        /\ closedBy[obj[c].owner] = "none"

RoomsOf(S, c) == {S.rooms[i] : i \in {j \in 1..Len(S.rooms) : S.roomObj[S.rooms[j]].owner = c}}

(* The handler steps that can run from the current state: a connection,    *)
(* or a frame from a connected session.                                    *)
HandlerSteps ==
    {fetch(Begin, ip) : ip \in connectIps}
        \cup {received(d, m) : d \in {e \in Conns : Open(e)},
                               m \in {Heartbeat, KeyMsg([obj |-> TRUE, k |-> "K1"]),
                                      EnterMsg("K1", Nick, "av1", JUndef, JUndef),
                                      ConfigMsg("cfgOpen")}}

(* c left the registry in the step to R because a send to it and the close *)
(* after it failed.                                                        *)
DroppedIn(R, c) == c \in clients /\ c \notin R.clients /\ R.closedBy[c] = "dropped"

(* What a disconnect of c does for the others: c's rooms leave the         *)
(* directory, their connected members get selfclose, c's owner gets        *)
(* onclose.                                                                *)
DisconnectCleanup(R, c) ==
    /\ RoomsOf(R, c) = {}
    /\ \A d \in clients \ {c} :
           (Open(d) /\ obj[d].room \in RoomsOf(Begin, c)) => Sent(R, d, "selfclose")
    /\ (obj[c].owner # NoClient /\ Open(obj[c].owner)) => Sent(R, obj[c].owner, "onclose")

(* C30: a session that leaves the registry because a send to it and the    *)
(* close that follows failed gets the cleanup of a disconnect in that      *)
(* step, and no room of a session removed this way is in the directory in  *)
(* any reachable state.                                                    *)
C30_SendFailureCleansUp ==
    /\ \A R \in HandlerSteps : \A c \in Conns : DroppedIn(R, c) => DisconnectCleanup(R, c)
    /\ \A c \in Conns : closedBy[c] = "dropped" => RoomsOf(Begin, c) = {}

AnyOpen(S) == \E c \in 1..Len(S.sockets) : S.sockets[c] = "open"

(* A socket the runtime has not reported closed: open, or closed by the    *)
(* broker with its close event still to come.                              *)
AnyListed(S) == \E c \in 1..Len(S.sockets) : S.sockets[c] # "closed"

SweepTimes == {k * AlarmDelay : k \in 1..(MaxSweepTime \div AlarmDelay)}

(* C31 as stated: the sweep leaves a wakeup armed exactly when a           *)
(* connection is still open at its end.                                    *)
C31_RearmedIffOpen == alarmDue => (alarmRun.alarmAt # NoAlarm <=> AnyOpen(alarmRun))

C31_SweepArming ==
    alarmDue =>
        /\ alarmRun.alarmAt # NoAlarm <=> AnyListed(alarmRun)
        /\ alarmRun.alarmAt \in {NoAlarm, now + AlarmDelay}
        /\ AnyOpen(alarmRun) => alarmRun.alarmAt = now + AlarmDelay
        /\ ~AnyListed(Begin) => (alarmRun.out = <<>> /\ alarmRun.obj = obj
                                  /\ alarmRun.sockets = sockets)

C31_PendingWhileOpen ==
    \A c \in Conns :
        (Open(c) /\ c \in clients /\ closedBy[c] # "bannedip") => alarmAt # NoAlarm

(* C31: the sweep leaves a wakeup armed, one period ahead, exactly when a  *)
(* socket is still listed by the runtime at its end (open, or closed by    *)
(* the broker and not yet reported closed); a sweep that finds no socket   *)
(* does nothing and arms nothing; while a connection accepted by onConnect *)
(* is open a wakeup is pending; and with time and due alarms running, the  *)
(* wakeup pending for an open connection is followed by a sweep that       *)
(* includes it, unless the connection goes first.                          *)
C31_SweepArmedWhileListed ==
    /\ []C31_SweepArming
    /\ []C31_PendingWhileOpen
    /\ \A c \in 1..MaxConn : \A t \in SweepTimes :
          (c \in Conns /\ Open(c) /\ alarmAt = t) ~> (~Open(c) \/ alarmAt > t)

(* A sweep found no socket and armed nothing: connections were there, all  *)
(* are reported closed, and no wakeup is pending.                          *)
C31_Witness ==
    /\ Len(obj) >= 1 /\ ~AnyListed(Begin)
    /\ alarmAt = NoAlarm /\ now >= AlarmDelay

(* A connected socket whose session is not in the registry. *)
Unregistered(c) == Open(c) /\ c \notin clients

RehydrationFrames ==
    {Heartbeat, Junk, KeyMsg([obj |-> TRUE, k |-> "K1"]), CreateMsg("K1", Nick, "av1", "cfgOpen")}

(* Resolving a live session: the registry is the same set of ids, and the *)
(* fields a frame does not address are the session's own.                  *)
LiveSessionKept(R, c) ==
    /\ R.clients = clients
    /\ Len(R.obj) = Len(obj)
    /\ R.obj[c].clientIp = obj[c].clientIp /\ R.obj[c].connectTime = obj[c].connectTime

(* C32: a frame on a connected socket whose session is missing from the    *)
(* registry puts a session with the socket's id back and is processed (a   *)
(* key command is answered by storing the key); a frame on a socket whose  *)
(* session is registered adds no session, and a heartbeat on it leaves     *)
(* key, room, owner and nickname as they were.                             *)
C32_RehydrateIfAbsent ==
    \A c \in Conns :
        /\ Unregistered(c) =>
               /\ \A m \in RehydrationFrames : c \in received(c, m).clients
               /\ received(c, KeyMsg([obj |-> TRUE, k |-> "K1"])).obj[c].onlineKey = "K1"
        /\ (Open(c) /\ c \in clients) =>
               /\ \A m \in RehydrationFrames : LiveSessionKept(received(c, m), c)
               /\ OnlyTouched(received(c, Heartbeat), c)

(* The part of C32 about sessions that are registered. *)
C32_LiveSessionsKept ==
    \A c \in Conns :
        (Open(c) /\ c \in clients) =>
            /\ \A m \in RehydrationFrames : LiveSessionKept(received(c, m), c)
            /\ OnlyTouched(received(c, Heartbeat), c)

(* What the handler does for a socket without a session: nothing at all.   *)
C32_UnregisteredIgnored ==
    \A c \in Conns :
        Unregistered(c) =>
            \A m \in RehydrationFrames :
                received(c, m).out = <<>> /\ received(c, m).clients = clients
                    /\ received(c, m).obj = obj /\ received(c, m).sockets = sockets

(* C33: whenever an enter of a connected, non-relayed session is answered  *)
(* with enterroomfailed, the session's room and owner are what they were   *)
(* before; a session that was in the lobby is still in it, and no room     *)
(* counts more members than before.                                        *)
C33_FailedEnterChangesNothing ==
    \A c \in Conns :
        (Open(c) /\ c \in clients /\ obj[c].owner = NoClient) =>
            \A m \in EnterFrames :
                LET R == received(c, m)
                IN  Sent(R, c, "enterroomfailed") =>
                        /\ R.obj[c].room = obj[c].room
                        /\ R.obj[c].owner = obj[c].owner
                        /\ c \in Lobby(Begin) => c \in Lobby(R)
                        /\ \A i \in 1..Len(rooms) :
                               roomNum(R, rooms[i]) = roomNum(Begin, rooms[i])

(* The same for a key that no room carries: the only failing enter that    *)
(* leaves the membership alone.                                            *)
C33_UnknownKeyChangesNothing ==
    \A c \in Conns :
        (Open(c) /\ c \in clients /\ obj[c].owner = NoClient) =>
            \A m \in EnterFrames :
                LET R == received(c, m)
                IN  (\A i \in 1..Len(rooms) : roomObj[rooms[i]].key # m.key) =>
                        /\ SentFrame(R, c, <<"enterroomfailed">>)
                        /\ R.obj[c].room = obj[c].room /\ R.obj[c].owner = obj[c].owner
                        /\ R.rooms = rooms /\ R.clients = clients

(* What a failing enter on an existing room does: the caller's room is     *)
(* that room afterwards.                                                   *)
C33_FailedEnterSetsRoom ==
    \A c \in Conns :
        (Open(c) /\ c \in clients /\ obj[c].owner = NoClient) =>
            \A m \in EnterFrames :
                LET R == received(c, m)
                IN  (Sent(R, c, "enterroomfailed")
                        /\ \E i \in 1..Len(rooms) : roomObj[rooms[i]].key = m.key) =>
                        /\ R.obj[c].room = findRoom(Begin, m.key)
                        /\ R.obj[c].owner = NoClient
                        /\ c \notin Lobby(R)

(* C34: no two rooms of the directory carry the same key, and no two have  *)
(* the same owner.                                                         *)
C34_UniqueKeysSingleOwner ==
    \A i \in 1..Len(rooms) : \A j \in 1..Len(rooms) :
        i # j =>
            /\ roomObj[rooms[i]].key # roomObj[rooms[j]].key
            /\ roomObj[rooms[i]].owner # roomObj[rooms[j]].owner

(* What create does for a session that already owns a room under the key:  *)
(* one more room with the same key and owner at the end of the directory,  *)
(* the old one still in it.                                                *)
C34_CreateAlwaysAppends ==
    \A c \in Conns :
        (Open(c) /\ c \in clients /\ obj[c].owner = NoClient /\ obj[c].onlineKey = "K1") =>
            LET R == received(c, CreateMsg("K1", Nick, "av1", "cfgOpen"))
            IN  /\ Len(R.rooms) = Len(rooms) + 1
                /\ SubSeq(R.rooms, 1, Len(rooms)) = rooms
                /\ R.roomObj[R.rooms[Len(R.rooms)]].owner = c
                /\ R.roomObj[R.rooms[Len(R.rooms)]].key = "K1"
                /\ R.obj[c].room = R.rooms[Len(R.rooms)]

(* C35: every room of the directory has an owner, the owner is a session   *)
(* in the registry, and the room is not in servermode.                     *)
C35_RoomsOwnedByRegistered ==
    \A i \in 1..Len(rooms) :
        /\ roomObj[rooms[i]].owner # NoClient
        /\ roomObj[rooms[i]].owner \in clients
        /\ ~roomObj[rooms[i]].servermode

(* The part of C35 that does not depend on the registry: a room always     *)
(* has its owner field set and is never in servermode.                     *)
C35_RoomsKeepOwnerField ==
    \A i \in 1..Len(rooms) :
        roomObj[rooms[i]].owner # NoClient /\ ~roomObj[rooms[i]].servermode

(* The positions in R.out of the frames with this tag about guest g that   *)
(* are delivered to O.                                                     *)
RelaySignals(R, O, g, tag) ==
    {i \in 1..Len(R.out) :
        R.out[i][1] = O /\ R.out[i][2][1] = tag /\ R.out[i][2][2] = g}

(* g is a registered guest of O before the step. *)
GuestBefore(g, O) == g \in Conns /\ g \in clients /\ obj[g].owner = O

(* One handler step, from the current state to R, keeps the order of the   *)
(* relay signals: onmessage,g and onclose,g go to the session that is g's  *)
(* owner since an earlier step; onclose,g goes out once, in the step that  *)
(* takes g out of the registry; g gets an owner O only in a step that      *)
(* delivers onconnection,g to O (or O's socket is not open, and stays so); *)
(* a guest keeps its owner while registered; ids are not registered anew;  *)
(* and a socket that is not open never opens again.                        *)
StepKeepsRelayOrder(R) ==
    /\ \A O \in 1..Len(R.obj) : \A g \in 1..Len(R.obj) :
          /\ RelaySignals(R, O, g, "onmessage") # {} =>
                 /\ GuestBefore(g, O)
                 /\ RelaySignals(R, O, g, "onclose") = {}
          /\ RelaySignals(R, O, g, "onclose") # {} =>
                 /\ GuestBefore(g, O) /\ g \notin R.clients
                 /\ Cardinality(RelaySignals(R, O, g, "onclose")) = 1
          /\ RelaySignals(R, O, g, "onconnection") # {} =>
                 /\ ~GuestBefore(g, O) /\ g \in R.clients /\ R.obj[g].owner = O
          /\ (g \in R.clients /\ R.obj[g].owner = O /\ ~GuestBefore(g, O)) =>
                 Cardinality(RelaySignals(R, O, g, "onconnection")) =
                     IF sockets[O] = "open" THEN 1 ELSE 0
          /\ (GuestBefore(g, O) /\ O # NoClient /\ g \in R.clients) => R.obj[g].owner = O
    /\ R.clients \ clients \subseteq {Len(obj) + 1}
    /\ \A c \in Conns : sockets[c] # "open" => R.sockets[c] # "open"

(* C36: every handler step from every reachable state keeps the order of   *)
(* the relay signals: for an owner O and a guest g, onconnection,g comes   *)
(* first, onmessage,g only while g is O's registered guest, onclose,g once *)
(* as g leaves the registry, and nothing about g after it.                 *)
C36_RelaySignalOrder ==
    /\ \A c \in Conns : Open(c) => \A m \in Inbound : StepKeepsRelayOrder(received(c, m))
    /\ \A c \in Conns : Closable(c) => StepKeepsRelayOrder(closeEvent(c))
    /\ \A ip \in connectIps : StepKeepsRelayOrder(fetch(Begin, ip))
    /\ \A g \in Conns : \A m \in Inbound :
          g \notin clients => received(g, m).out = <<>>

(* A connected guest of a connected owner: its next frame is relayed, and  *)
(* its disconnect would be signalled.                                      *)
C36_Witness ==
    \E g \in Conns :
        /\ Open(g) /\ g \in clients /\ obj[g].owner # NoClient /\ obj[g].owner # g
        /\ Open(obj[g].owner)
        /\ RelaySignals(received(g, Junk), obj[g].owner, g, "onmessage") # {}
        /\ RelaySignals(closeEvent(g), obj[g].owner, g, "onclose") # {}

(* C37: a full record with a future utc and no banned keyword, sent by a   *)
(* session with its own key while fewer than 20 unexpired events exist, is *)
(* accepted, whatever expired events the list still holds.                 *)
C37_ExpiredEventsDoNotBlock ==
    \A c \in Conns : \A k \in {"K1", "K2"} : \A cand \in Records :
        (/\ Holds(c, k)
         /\ cand.utc > now /\ ~HasKeyword(cand.content)
         /\ Cardinality(LiveEvents(Begin)) < EventCap) =>
            LET R == received(c, EventsMsg(cand, k, JUndef))
            IN  Accepted(R, k, cand) /\ ~Sent(R, c, "eventsdenied")
====
